---- MODULE Spec2Model ----
(***************************************************************************)
(* Verification model of the Audio-chat backend:                           *)
(*   - ParallelProcessor (backend/parallel_processor.py): chunk split,     *)
(*     worker dispatch, collection and crossfade merge;                    *)
(*   - AudioProcessor.process_audio (backend/audio_processing.py): the     *)
(*     direct effect-chain path;                                           *)
(*   - CacheManager (backend/cache_manager.py): the three-namespace cache. *)
(* Samples are exact rationals <<num, den>> (den > 0, lowest terms); this  *)
(* idealises the float64 arithmetic of numpy.                              *)
(***************************************************************************)
EXTENDS Integers, Sequences, FiniteSets, TLC

\* ------------------------------------------------------------------ bounds
MaxLen == 6

MaxOps == 3

\* --------------------------------------------------- rational arithmetic
RECURSIVE GCD(_, _)
GCD(a, b) == IF b = 0 THEN a ELSE GCD(b, a % b)

Abs(x) == IF x < 0 THEN -x ELSE x

R(n, d) ==
    LET s == IF d < 0 THEN -1 ELSE 1
        g == GCD(Abs(n), Abs(d))
    IN  IF n = 0 THEN <<0, 1>> ELSE <<(s * n) \div g, (s * d) \div g>>

\* x + y over the least common denominator (keeps intermediate values small)
RAdd(x, y) ==
    LET g == GCD(x[2], y[2])
    IN  R(x[1] * (y[2] \div g) + y[1] * (x[2] \div g), (x[2] \div g) * y[2])

RNeg(x) == <<-x[1], x[2]>>

RSub(x, y) == RAdd(x, RNeg(y))

\* x * y, cross-reduced before multiplying
RMul(x, y) ==
    LET g1 == GCD(Abs(x[1]), y[2])
        g2 == GCD(Abs(y[1]), x[2])
    IN  IF x[1] = 0 \/ y[1] = 0 THEN <<0, 1>>
        ELSE <<(x[1] \div g1) * (y[1] \div g2), (x[2] \div g2) * (y[2] \div g1)>>

\* x / y for y # 0
RDiv(x, y) == RMul(x, IF y[1] < 0 THEN <<-y[2], -y[1]>> ELSE <<y[2], y[1]>>)

RAbs(x) == <<Abs(x[1]), x[2]>>

RLess(x, y) == RSub(x, y)[1] < 0

RECURSIVE RPow(_, _)
RPow(x, k) == IF k = 0 THEN <<1, 1>> ELSE RMul(x, RPow(x, k - 1))

\* min(a, b)
Min(a, b) == IF a < b THEN a ELSE b

\* int(x) of a non-negative rational: truncation
Trunc(x) == x[1] \div x[2]

\* np.max(np.abs(a)) of a non-empty array
RECURSIVE PeakFrom(_, _)
PeakFrom(a, k) ==
    IF k > Len(a) THEN <<0, 1>>
    ELSE LET rest == PeakFrom(a, k + 1)
         IN  IF RLess(rest, RAbs(a[k])) THEN RAbs(a[k]) ELSE rest

Peak(a) == PeakFrom(a, 1)

\* a[lo:hi] with python's 0-based, half-open, clipped bounds
Slice(a, lo, hi) ==
    LET h == IF hi > Len(a) THEN Len(a) ELSE hi
    IN  IF lo >= h THEN << >> ELSE SubSeq(a, lo + 1, h)

\* ------------------------------------------------------------ input sets
\* sample values of the input buffers, nominally in [-1.0, 1.0]
Ramp(n) == [k \in 1..n |-> R(k, 8)]

Alternating(n) == [k \in 1..n |-> IF k % 2 = 1 THEN <<1, 2>> ELSE <<-1, 4>>]

AudioBuffers == UNION {{Ramp(n), Alternating(n)} : n \in 1..MaxLen}

SampleRates == {2, 3}

\* chunk_duration_seconds / overlap_seconds as rationals (multiples of 0.5 s)
ChunkDurations == {<<k, 2>> : k \in 2..(MaxLen + 1)}

OverlapDurations == {<<k, 2>> : k \in 0..MaxLen}

\* EffectSpec: [type, parameters]; parameters is a map with optional keys
DelayEcho == [type |-> "delay",
              parameters |-> [time |-> <<1, 2>>, feedback |-> <<1, 2>>, mix |-> <<1, 2>>]]

DelayShort == [type |-> "delay",
               parameters |-> [time |-> <<1, 1>>, feedback |-> <<1, 2>>, mix |-> <<1, 4>>]]

DelayDefault == [type |-> "delay", parameters |-> << >>]

Unsupported == [type |-> "chorus", parameters |-> << >>]

EffectChains ==
    {<< >>, <<DelayEcho>>, <<DelayEcho, Unsupported>>, <<DelayEcho, DelayShort>>, <<DelayDefault>>}

\* ------------------------------------------------- instruction texts
\* a str is the sequence of its characters; Spell gives the characters of
\* every str literal of parse_instructions and of every instruction phrase
Spell ==
    ("eq" :> <<"e", "q">>)
    @@ ("equalization" :> <<"e", "q", "u", "a", "l", "i", "z", "a", "t", "i", "o", "n">>)
    @@ ("equalizer" :> <<"e", "q", "u", "a", "l", "i", "z", "e", "r">>)
    @@ ("bass" :> <<"b", "a", "s", "s">>)
    @@ ("treble" :> <<"t", "r", "e", "b", "l", "e">>)
    @@ ("mid" :> <<"m", "i", "d">>)
    @@ ("frequency" :> <<"f", "r", "e", "q", "u", "e", "n", "c", "y">>)
    @@ ("frequencies" :> <<"f", "r", "e", "q", "u", "e", "n", "c", "i", "e", "s">>)
    @@ ("tone" :> <<"t", "o", "n", "e">>)
    @@ ("warm" :> <<"w", "a", "r", "m">>)
    @@ ("bright" :> <<"b", "r", "i", "g", "h", "t">>)
    @@ ("telephone" :> <<"t", "e", "l", "e", "p", "h", "o", "n", "e">>)
    @@ ("radio" :> <<"r", "a", "d", "i", "o">>)
    @@ ("scooped" :> <<"s", "c", "o", "o", "p", "e", "d">>)
    @@ ("vocal_presence" :> <<"v", "o", "c", "a", "l", "_", "p", "r", "e", "s", "e", "n", "c", "e">>)
    @@ ("more" :> <<"m", "o", "r", "e">>)
    @@ ("boost" :> <<"b", "o", "o", "s", "t">>)
    @@ ("increase" :> <<"i", "n", "c", "r", "e", "a", "s", "e">>)
    @@ ("less" :> <<"l", "e", "s", "s">>)
    @@ ("cut" :> <<"c", "u", "t">>)
    @@ ("reduce" :> <<"r", "e", "d", "u", "c", "e">>)
    @@ ("high" :> <<"h", "i", "g", "h">>)
    @@ ("compress" :> <<"c", "o", "m", "p", "r", "e", "s", "s">>)
    @@ ("compression" :> <<"c", "o", "m", "p", "r", "e", "s", "s", "i", "o", "n">>)
    @@ ("dynamics" :> <<"d", "y", "n", "a", "m", "i", "c", "s">>)
    @@ ("punchy" :> <<"p", "u", "n", "c", "h", "y">>)
    @@ ("tight" :> <<"t", "i", "g", "h", "t">>)
    @@ ("heavy" :> <<"h", "e", "a", "v", "y">>)
    @@ ("strong" :> <<"s", "t", "r", "o", "n", "g">>)
    @@ ("light" :> <<"l", "i", "g", "h", "t">>)
    @@ ("gentle" :> <<"g", "e", "n", "t", "l", "e">>)
    @@ ("subtle" :> <<"s", "u", "b", "t", "l", "e">>)
    @@ ("fast" :> <<"f", "a", "s", "t">>)
    @@ ("slow" :> <<"s", "l", "o", "w">>)
    @@ ("reverb" :> <<"r", "e", "v", "e", "r", "b">>)
    @@ ("echo" :> <<"e", "c", "h", "o">>)
    @@ ("space" :> <<"s", "p", "a", "c", "e">>)
    @@ ("room" :> <<"r", "o", "o", "m">>)
    @@ ("hall" :> <<"h", "a", "l", "l">>)
    @@ ("ambience" :> <<"a", "m", "b", "i", "e", "n", "c", "e">>)
    @@ ("large" :> <<"l", "a", "r", "g", "e">>)
    @@ ("cathedral" :> <<"c", "a", "t", "h", "e", "d", "r", "a", "l">>)
    @@ ("small" :> <<"s", "m", "a", "l", "l">>)
    @@ ("booth" :> <<"b", "o", "o", "t", "h">>)
    @@ ("wet" :> <<"w", "e", "t">>)
    @@ ("noise" :> <<"n", "o", "i", "s", "e">>)
    @@ ("clean" :> <<"c", "l", "e", "a", "n">>)
    @@ ("background" :> <<"b", "a", "c", "k", "g", "r", "o", "u", "n", "d">>)
    @@ ("hiss" :> <<"h", "i", "s", "s">>)
    @@ ("hum" :> <<"h", "u", "m">>)
    @@ ("delay" :> <<"d", "e", "l", "a", "y">>)
    @@ ("repeat" :> <<"r", "e", "p", "e", "a", "t">>)
    @@ ("long" :> <<"l", "o", "n", "g">>)
    @@ ("short" :> <<"s", "h", "o", "r", "t">>)
    @@ ("pitch" :> <<"p", "i", "t", "c", "h">>)
    @@ ("higher" :> <<"h", "i", "g", "h", "e", "r">>)
    @@ ("lower" :> <<"l", "o", "w", "e", "r">>)
    @@ ("deeper" :> <<"d", "e", "e", "p", "e", "r">>)
    @@ ("chipmunk" :> <<"c", "h", "i", "p", "m", "u", "n", "k">>)
    @@ ("up" :> <<"u", "p">>)
    @@ ("down" :> <<"d", "o", "w", "n">>)
    @@ ("semitone" :> <<"s", "e", "m", "i", "t", "o", "n", "e">>)
    @@ ("faster" :> <<"f", "a", "s", "t", "e", "r">>)
    @@ ("slower" :> <<"s", "l", "o", "w", "e", "r">>)
    @@ ("speed" :> <<"s", "p", "e", "e", "d">>)
    @@ ("tempo" :> <<"t", "e", "m", "p", "o">>)
    @@ ("stereo" :> <<"s", "t", "e", "r", "e", "o">>)
    @@ ("width" :> <<"w", "i", "d", "t", "h">>)
    @@ ("wide" :> <<"w", "i", "d", "e">>)
    @@ ("narrow" :> <<"n", "a", "r", "r", "o", "w">>)
    @@ ("mono" :> <<"m", "o", "n", "o">>)
    @@ ("wider" :> <<"w", "i", "d", "e", "r">>)
    @@ ("narrower" :> <<"n", "a", "r", "r", "o", "w", "e", "r">>)
    @@ ("louder" :> <<"l", "o", "u", "d", "e", "r">>)
    @@ ("maximize" :> <<"m", "a", "x", "i", "m", "i", "z", "e">>)
    @@ ("limit" :> <<"l", "i", "m", "i", "t">>)
    @@ ("volume" :> <<"v", "o", "l", "u", "m", "e">>)
    @@ ("gain" :> <<"g", "a", "i", "n">>)
    @@ ("quieter" :> <<"q", "u", "i", "e", "t", "e", "r">>)
    @@ ("softer" :> <<"s", "o", "f", "t", "e", "r">>)
    @@ ("distort" :> <<"d", "i", "s", "t", "o", "r", "t">>)
    @@ ("distortion" :> <<"d", "i", "s", "t", "o", "r", "t", "i", "o", "n">>)
    @@ ("saturate" :> <<"s", "a", "t", "u", "r", "a", "t", "e">>)
    @@ ("saturation" :> <<"s", "a", "t", "u", "r", "a", "t", "i", "o", "n">>)
    @@ ("analog" :> <<"a", "n", "a", "l", "o", "g">>)
    @@ ("filter" :> <<"f", "i", "l", "t", "e", "r">>)
    @@ ("lowpass" :> <<"l", "o", "w", "p", "a", "s", "s">>)
    @@ ("highpass" :> <<"h", "i", "g", "h", "p", "a", "s", "s">>)
    @@ ("bandpass" :> <<"b", "a", "n", "d", "p", "a", "s", "s">>)
    @@ ("type" :> <<"t", "y", "p", "e">>)
    @@ ("parameters" :> <<"p", "a", "r", "a", "m", "e", "t", "e", "r", "s">>)
    @@ ("low" :> <<"l", "o", "w">>)
    @@ ("low_mid" :> <<"l", "o", "w", "_", "m", "i", "d">>)
    @@ ("high_mid" :> <<"h", "i", "g", "h", "_", "m", "i", "d">>)
    @@ ("threshold" :> <<"t", "h", "r", "e", "s", "h", "o", "l", "d">>)
    @@ ("ratio" :> <<"r", "a", "t", "i", "o">>)
    @@ ("attack" :> <<"a", "t", "t", "a", "c", "k">>)
    @@ ("release" :> <<"r", "e", "l", "e", "a", "s", "e">>)
    @@ ("room_size" :> <<"r", "o", "o", "m", "_", "s", "i", "z", "e">>)
    @@ ("damping" :> <<"d", "a", "m", "p", "i", "n", "g">>)
    @@ ("wet_level" :> <<"w", "e", "t", "_", "l", "e", "v", "e", "l">>)
    @@ ("dry_level" :> <<"d", "r", "y", "_", "l", "e", "v", "e", "l">>)
    @@ ("noise_reduction" :> <<"n", "o", "i", "s", "e", "_", "r", "e", "d", "u", "c", "t", "i", "o", "n">>)
    @@ ("strength" :> <<"s", "t", "r", "e", "n", "g", "t", "h">>)
    @@ ("sensitivity" :> <<"s", "e", "n", "s", "i", "t", "i", "v", "i", "t", "y">>)
    @@ ("speed up" :> <<"s", "p", "e", "e", "d", " ", "u", "p">>)
    @@ ("slow down" :> <<"s", "l", "o", "w", " ", "d", "o", "w", "n">>)
    @@ ("low pass" :> <<"l", "o", "w", " ", "p", "a", "s", "s">>)
    @@ ("high pass" :> <<"h", "i", "g", "h", " ", "p", "a", "s", "s">>)
    @@ (" and " :> <<" ", "a", "n", "d", " ">>)
    @@ ("%" :> <<"%">>)
    @@ ("make the bass louder" :> <<"m", "a", "k", "e", " ", "t", "h", "e", " ", "b", "a", "s", "s", " ", "l", "o", "u", "d", "e", "r">>)
    @@ ("add a small room reverb" :> <<"a", "d", "d", " ", "a", " ", "s", "m", "a", "l", "l", " ", "r", "o", "o", "m", " ", "r", "e", "v", "e", "r", "b">>)
    @@ ("Boost the treble" :> <<"B", "o", "o", "s", "t", " ", "t", "h", "e", " ", "t", "r", "e", "b", "l", "e">>)
    @@ ("warm tone" :> <<"w", "a", "r", "m", " ", "t", "o", "n", "e">>)
    @@ ("adjust the tone" :> <<"a", "d", "j", "u", "s", "t", " ", "t", "h", "e", " ", "t", "o", "n", "e">>)
    @@ ("hello" :> <<"h", "e", "l", "l", "o">>)
    @@ ("add some echo" :> <<"a", "d", "d", " ", "s", "o", "m", "e", " ", "e", "c", "h", "o">>)
    @@ ("heavy compression" :> <<"h", "e", "a", "v", "y", " ", "c", "o", "m", "p", "r", "e", "s", "s", "i", "o", "n">>)
    @@ ("clean up the noise" :> <<"c", "l", "e", "a", "n", " ", "u", "p", " ", "t", "h", "e", " ", "n", "o", "i", "s", "e">>)
    @@ ("pitch down 3 semitones" :> <<"p", "i", "t", "c", "h", " ", "d", "o", "w", "n", " ", "3", " ", "s", "e", "m", "i", "t", "o", "n", "e", "s">>)
    @@ ("20% faster" :> <<"2", "0", "%", " ", "f", "a", "s", "t", "e", "r">>)
    @@ ("wider stereo" :> <<"w", "i", "d", "e", "r", " ", "s", "t", "e", "r", "e", "o">>)
    @@ ("less mid" :> <<"l", "e", "s", "s", " ", "m", "i", "d">>)
    @@ ("long delay" :> <<"l", "o", "n", "g", " ", "d", "e", "l", "a", "y">>)
    @@ ("Add some reverb" :> <<"A", "d", "d", " ", "s", "o", "m", "e", " ", "r", "e", "v", "e", "r", "b">>)
    @@ ("make it louder" :> <<"m", "a", "k", "e", " ", "i", "t", " ", "l", "o", "u", "d", "e", "r">>)
    @@ ("12  semitones higher" :> <<"1", "2", " ", " ", "s", "e", "m", "i", "t", "o", "n", "e", "s", " ", "h", "i", "g", "h", "e", "r">>)
    @@ ("5 % slower" :> <<"5", " ", "%", " ", "s", "l", "o", "w", "e", "r">>)
    @@ ("15%slower" :> <<"1", "5", "%", "s", "l", "o", "w", "e", "r">>)

\* the phrases the instruction texts of this model are made of
Phrases ==
    {"make the bass louder",
     "add a small room reverb",
     "Boost the treble",
     "warm tone",
     "adjust the tone",
     "hello",
     "add some echo",
     "heavy compression",
     "clean up the noise",
     "pitch down 3 semitones",
     "20% faster",
     "wider stereo",
     "telephone",
     "less mid",
     "long delay",
     "Add some reverb",
     "make it louder",
     "12  semitones higher",
     "5 % slower",
     "15%slower"}

\* the phrases an instruction text of two phrases starts with
LeadPhrases ==
    {"make the bass louder", "warm tone", "add some echo", "hello", "pitch down 3 semitones"}

\* the instruction texts: one phrase, or two joined by " and "
Instructions ==
    {<<p>> : p \in Phrases} \cup {<<p, q>> : p \in LeadPhrases, q \in Phrases}

RECURSIVE JoinFrom(_, _)
JoinFrom(instr, k) ==
    IF k > Len(instr) THEN << >>
    ELSE (IF k > 1 THEN Spell[" and "] ELSE << >>) \o Spell[instr[k]] \o JoinFrom(instr, k + 1)

\* the characters of an instruction text
Text(instr) == JoinFrom(instr, 1)

UpperCase ==
    ("A" :> "a") @@ ("B" :> "b") @@ ("C" :> "c") @@ ("D" :> "d") @@ ("E" :> "e")
    @@ ("F" :> "f") @@ ("G" :> "g") @@ ("H" :> "h") @@ ("I" :> "i") @@ ("J" :> "j")
    @@ ("K" :> "k") @@ ("L" :> "l") @@ ("M" :> "m") @@ ("N" :> "n") @@ ("O" :> "o")
    @@ ("P" :> "p") @@ ("Q" :> "q") @@ ("R" :> "r") @@ ("S" :> "s") @@ ("T" :> "t")
    @@ ("U" :> "u") @@ ("V" :> "v") @@ ("W" :> "w") @@ ("X" :> "x") @@ ("Y" :> "y")
    @@ ("Z" :> "z")

\* str.lower()
Lower(text) ==
    [k \in 1..Len(text) |-> IF text[k] \in DOMAIN UpperCase THEN UpperCase[text[k]] ELSE text[k]]

\* word in text, for the characters of two strs: substring search
Contains(text, word) ==
    \E i \in 1..(Len(text) - Len(word) + 1) : SubSeq(text, i, i + Len(word) - 1) = word

Digits ==
    ("0" :> 0) @@ ("1" :> 1) @@ ("2" :> 2) @@ ("3" :> 3) @@ ("4" :> 4)
    @@ ("5" :> 5) @@ ("6" :> 6) @@ ("7" :> 7) @@ ("8" :> 8) @@ ("9" :> 9)

IsDigit(text, k) == k >= 1 /\ k <= Len(text) /\ text[k] \in DOMAIN Digits

\* the position after the longest run of characters satisfying Is, from k
RECURSIVE DigitsEnd(_, _)
DigitsEnd(text, k) == IF IsDigit(text, k) THEN DigitsEnd(text, k + 1) ELSE k

RECURSIVE SpacesEnd(_, _)
SpacesEnd(text, k) ==
    IF k <= Len(text) /\ text[k] = " " THEN SpacesEnd(text, k + 1) ELSE k

\* int() of the digits text[lo..hi]
RECURSIVE IntOf(_, _, _)
IntOf(text, lo, hi) ==
    IF hi < lo THEN 0 ELSE 10 * IntOf(text, lo, hi - 1) + Digits[text[hi]]

StartsAt(text, k, word) ==
    k + Len(word) - 1 <= Len(text) /\ SubSeq(text, k, k + Len(word) - 1) = word

\* re.search(r'(\d+)<sep>\s*(<w1>|<w2>...)', text): the leftmost match
\*   [found, number (group 1 as an int), word (the alternative matched)]
\* \d+ is greedy and what follows is no digit, so group 1 is a whole digit run
ReSearch(text, sep, words) ==
    LET After(i) == SpacesEnd(text, DigitsEnd(text, i) + Len(sep))
        MatchAt(i, w) ==
            /\ IsDigit(text, i)
            /\ StartsAt(text, DigitsEnd(text, i), sep)
            /\ StartsAt(text, After(i), Spell[w])
        starts == {i \in 1..Len(text) : \E w \in words : MatchAt(i, w)}
    IN  IF starts = {} THEN [found |-> FALSE, number |-> 0, word |-> ""]
        ELSE LET i == CHOOSE i \in starts : \A j \in starts : i <= j
             IN  [found |-> TRUE,
                  number |-> IntOf(text, i, DigitsEnd(text, i) - 1),
                  word |-> CHOOSE w \in words : MatchAt(i, w)]

\* ----------------------------------------------------- AudioProcessor
\* names bound on the AudioProcessor instance (the methods of the class)
AudioProcessorMethods ==
    {"analyze_audio", "parse_instructions", "process_audio", "describe_effect",
     "apply_eq", "apply_compression", "apply_reverb", "apply_noise_reduction",
     "apply_delay", "apply_pitch_shift", "apply_time_stretch",
     "apply_stereo_width", "apply_limiter", "apply_distortion",
     "apply_filter", "apply_gate"}

supported_effects ==
    {"eq", "compression", "reverb", "noise_reduction", "delay", "pitch_shift",
     "time_stretch", "stereo_width", "limiter", "distortion", "filter", "gate"}

\* parameters.get(key, default)
Get(parameters, key, default) ==
    IF key \in DOMAIN parameters THEN parameters[key] ELSE default

\* an absent optional argument (None) and a present one
Nothing == << >>

Some(x) == <<x>>

\* the empty dict
EmptyMap == << >>

\* d[key] = value
Put(map, key, value) ==
    [k \in (DOMAIN map) \cup {key} |-> IF k = key THEN value ELSE map[k]]

Num(n) == <<n, 1>>

\* self.eq_presets, in the order of the dict
PresetOrder == <<"warm", "bright", "telephone", "radio", "scooped", "vocal_presence">>

eq_presets ==
    [warm |-> [low |-> Num(3), low_mid |-> Num(1), high_mid |-> Num(-1), high |-> Num(-2)],
     bright |-> [low |-> Num(-2), low_mid |-> Num(-1), high_mid |-> Num(2), high |-> Num(4)],
     telephone |-> [low |-> Num(-15), low_mid |-> Num(5), high_mid |-> Num(5), high |-> Num(-15)],
     radio |-> [low |-> Num(-10), low_mid |-> Num(2), high_mid |-> Num(2), high |-> Num(-8)],
     scooped |-> [low |-> Num(2), low_mid |-> Num(-4), high_mid |-> Num(-4), high |-> Num(2)],
     vocal_presence |-> [low |-> Num(-1), low_mid |-> Num(-2), high_mid |-> Num(4), high |-> Num(2)]]

\* the str tokens of str(processing_chain): the quoted keys and type names
\* (the values of the chain built so far are numbers)
ChainTokens(chain) ==
    {"type", "parameters"}
        \cup {chain[k].type : k \in 1..Len(chain)}
        \cup UNION {DOMAIN chain[k].parameters : k \in 1..Len(chain)}

\* bool(audio_analysis): None and the empty dict are false
Truthy(audio_analysis) == Len(audio_analysis) = 1 /\ DOMAIN audio_analysis[1] # {}

Effect(type, parameters) == [type |-> type, parameters |-> parameters]

\* variant of the fallback that appends the eq only when nothing else was added
DefaultEnhancementEqOtherwise(analysis) ==
    LET fixes ==
            (IF Get(analysis, "is_too_quiet", FALSE)
             THEN <<Effect("limiter", [gain |-> Num(6), threshold |-> <<-3, 10>>, release |-> Num(50)])>>
             ELSE << >>)
            \o (IF RLess(<<1, 100>>, Get(analysis, "noise_floor", Num(0)))
                THEN <<Effect("noise_reduction", [strength |-> <<2, 5>>, sensitivity |-> <<1, 2>>])>>
                ELSE << >>)
    IN  IF fixes = << >> THEN <<Effect("eq", [low |-> Num(1), high |-> Num(1)])>> ELSE fixes

\* variant of the fallback without the closing eq
DefaultEnhancementFixesOnly(analysis) ==
    (IF Get(analysis, "is_too_quiet", FALSE)
     THEN <<Effect("limiter", [gain |-> Num(6), threshold |-> <<-3, 10>>, release |-> Num(50)])>>
     ELSE << >>)
    \o (IF RLess(<<1, 100>>, Get(analysis, "noise_floor", Num(0)))
        THEN <<Effect("noise_reduction", [strength |-> <<2, 5>>, sensitivity |-> <<1, 2>>])>>
        ELSE << >>)

\* the fallback chain of parse_instructions (lines 409-427)
DefaultEnhancement(analysis) ==
    (IF Get(analysis, "is_too_quiet", FALSE)
     THEN <<Effect("limiter", [gain |-> Num(6), threshold |-> <<-3, 10>>, release |-> Num(50)])>>
     ELSE << >>)
    \o (IF RLess(<<1, 100>>, Get(analysis, "noise_floor", Num(0)))
        THEN <<Effect("noise_reduction", [strength |-> <<2, 5>>, sensitivity |-> <<1, 2>>])>>
        ELSE << >>)
    \o <<Effect("eq", [low |-> Num(1), high |-> Num(1)])>>

\* variant that scans the limiter topic first
ScanOrderLimiterFirst(topic) ==
    topic.limiter \o topic.eq \o topic.compression \o topic.reverb
        \o topic.noise_reduction \o topic.delay \o topic.pitch_shift
        \o topic.time_stretch \o topic.stereo_width \o topic.distortion \o topic.filter

\* the order in which the topic blocks of parse_instructions append their
\* effect (topic[kind] is the one-element or empty list a block appends)
ScanOrder(topic) ==
    topic.eq \o topic.compression \o topic.reverb \o topic.noise_reduction
        \o topic.delay \o topic.pitch_shift \o topic.time_stretch
        \o topic.stereo_width \o topic.limiter \o topic.distortion \o topic.filter

\* variant that adds the default enhancement to every chain
NeedsDefaultAlways(processing_chain, audio_analysis) == Truthy(audio_analysis)

\* "if not processing_chain and audio_analysis:"
NeedsDefault(processing_chain, audio_analysis) ==
    processing_chain = << >> /\ Truthy(audio_analysis)

\* the dicts analyze_audio returns, by the keys parse_instructions reads
AnalysisOf(peak, noise_floor) ==
    [peak_level |-> peak, is_too_quiet |-> RLess(peak, <<1, 10>>), noise_floor |-> noise_floor]

AnalysisError == [error |-> "error"]

\* the audio_analysis arguments: None, {}, the error dict, and analyses of
\* loud / quiet and clean / noisy audio (with both thresholds met exactly)
Analyses ==
    {Nothing, Some(EmptyMap), Some(AnalysisError)}
        \cup {Some(AnalysisOf(peak, floor)) :
                 peak \in {<<1, 2>>, <<1, 10>>, <<1, 20>>},
                 floor \in {<<1, 200>>, <<1, 100>>, <<1, 50>>}}

\* word in instructions, for a str literal of parse_instructions
Has(instructions, word) == Contains(instructions, Spell[word])

\* any(word in instructions for word in words)
AnyOf(instructions, words) == \E w \in words : Has(instructions, w)

\* "more" in instructions or "boost" in instructions or "increase" in instructions
More(instructions) ==
    Has(instructions, "more") \/ Has(instructions, "boost") \/ Has(instructions, "increase")

\* "less" in instructions or "cut" in instructions or "reduce" in instructions
Less(instructions) ==
    Has(instructions, "less") \/ Has(instructions, "cut") \/ Has(instructions, "reduce")

\* the positions in PresetOrder of the presets named in the instructions
NamedPresets(instructions) ==
    {k \in 1..Len(PresetOrder) : Has(instructions, PresetOrder[k])}

\* eq_params after the preset loop: the first preset named, or {}
EqPreset(instructions) ==
    IF NamedPresets(instructions) = {} THEN EmptyMap
    ELSE eq_presets[PresetOrder[CHOOSE k \in NamedPresets(instructions) :
                                   \A j \in NamedPresets(instructions) : k <= j]]

\* the band adjustment of a band named in the instructions: [set, value]
BandGain(instructions, always, boost, cut, plain) ==
    IF More(instructions) THEN [set |-> TRUE, value |-> Num(boost)]
    ELSE IF Less(instructions) THEN [set |-> TRUE, value |-> Num(cut)]
    ELSE [set |-> always, value |-> Num(plain)]

\* eq_params[band] = gain when the band is named and a gain was chosen
WithBand(eq_params, named, band, gain) ==
    IF named /\ gain.set THEN Put(eq_params, band, gain.value) ELSE eq_params

\* eq_params at the end of the EQ block
EqParams(instructions) ==
    WithBand(
        WithBand(
            WithBand(EqPreset(instructions),
                     Has(instructions, "bass"), "low",
                     BandGain(instructions, TRUE, 4, -4, 2)),
            Has(instructions, "mid"), "mid",
            BandGain(instructions, FALSE, 3, -3, 0)),
        Has(instructions, "treble") \/ Has(instructions, "high"), "high",
        BandGain(instructions, FALSE, 3, -3, 0))

\* the EQ block (lines 136-173)
EqTopic(instructions) ==
    IF AnyOf(instructions, {"eq", "equalization", "equalizer", "bass", "treble", "mid",
                            "frequency", "frequencies", "tone"})
       /\ DOMAIN EqParams(instructions) # {}
    THEN <<Effect("eq", EqParams(instructions))>>
    ELSE << >>

\* the compression block (lines 175-202)
CompressionTopic(instructions) ==
    LET strength == IF Has(instructions, "heavy") \/ Has(instructions, "strong")
                    THEN [threshold |-> Num(-24), ratio |-> Num(6)]
                    ELSE IF Has(instructions, "light") \/ Has(instructions, "gentle")
                            \/ Has(instructions, "subtle")
                    THEN [threshold |-> Num(-18), ratio |-> Num(2)]
                    ELSE [threshold |-> Num(-20), ratio |-> Num(3)]
        timing == IF Has(instructions, "fast") THEN [attack |-> Num(5), release |-> Num(100)]
                  ELSE IF Has(instructions, "slow") THEN [attack |-> Num(50), release |-> Num(500)]
                  ELSE [attack |-> Num(20), release |-> Num(250)]
    IN  IF AnyOf(instructions, {"compress", "compression", "dynamics", "punchy", "tight"})
        THEN <<Effect("compression",
                      [threshold |-> strength.threshold, ratio |-> strength.ratio,
                       attack |-> timing.attack, release |-> timing.release])>>
        ELSE << >>

\* the reverb block (lines 204-231)
ReverbTopic(instructions) ==
    LET size == IF Has(instructions, "large") \/ Has(instructions, "hall")
                   \/ Has(instructions, "cathedral")
                THEN [room_size |-> <<17, 20>>, wet_level |-> <<2, 5>>]
                ELSE IF Has(instructions, "small") \/ Has(instructions, "room")
                        \/ Has(instructions, "booth")
                THEN [room_size |-> <<3, 10>>, wet_level |-> <<1, 4>>]
                ELSE [room_size |-> <<1, 2>>, wet_level |-> <<33, 100>>]
        balance == IF Has(instructions, "more") \/ Has(instructions, "wet")
                   THEN [wet |-> <<3, 20>>, dry |-> <<-3, 20>>]
                   ELSE IF Has(instructions, "less") \/ Has(instructions, "subtle")
                           \/ Has(instructions, "gentle")
                   THEN [wet |-> <<-1, 10>>, dry |-> <<1, 10>>]
                   ELSE [wet |-> Num(0), dry |-> Num(0)]
    IN  IF AnyOf(instructions, {"reverb", "echo", "space", "room", "hall", "ambience"})
        THEN <<Effect("reverb",
                      [room_size |-> size.room_size, damping |-> <<1, 2>>,
                       wet_level |-> RAdd(size.wet_level, balance.wet),
                       dry_level |-> RAdd(<<7, 10>>, balance.dry)])>>
        ELSE << >>

\* the noise reduction block (lines 233-248)
NoiseTopic(instructions) ==
    IF AnyOf(instructions, {"noise", "clean", "background", "hiss", "hum"})
    THEN <<Effect("noise_reduction",
                  [strength |-> IF Has(instructions, "strong") \/ Has(instructions, "heavy")
                                THEN <<4, 5>>
                                ELSE IF Has(instructions, "light") \/ Has(instructions, "gentle")
                                THEN <<3, 10>>
                                ELSE <<1, 2>>,
                   sensitivity |-> <<1, 2>>])>>
    ELSE << >>

\* "echo" in str(processing_chain), for the chain built before the delay block
EchoInChain(processing_chain) ==
    \E token \in ChainTokens(processing_chain) : Contains(Spell[token], Spell["echo"])

\* the delay block (lines 250-273); processing_chain: the chain built so far
DelayTopic(instructions, processing_chain) ==
    LET length == IF Has(instructions, "long") THEN [time |-> <<1, 2>>, feedback |-> <<2, 5>>]
                  ELSE IF Has(instructions, "short")
                  THEN [time |-> <<1, 8>>, feedback |-> <<1, 5>>]
                  ELSE [time |-> <<1, 4>>, feedback |-> <<3, 10>>]
    IN  IF AnyOf(instructions, {"delay", "echo", "repeat"}) /\ ~EchoInChain(processing_chain)
        THEN <<Effect("delay",
                      [time |-> length.time, feedback |-> length.feedback,
                       mix |-> IF Has(instructions, "more") THEN <<1, 2>>
                               ELSE IF Has(instructions, "subtle") \/ Has(instructions, "less")
                               THEN <<1, 5>>
                               ELSE <<3, 10>>])>>
        ELSE << >>

\* the pitch shift block (lines 275-299)
PitchTopic(instructions) ==
    LET semitone_match == ReSearch(instructions, << >>, {"semitone"})
    IN  IF AnyOf(instructions, {"pitch", "higher", "lower", "deeper", "chipmunk"})
        THEN <<Effect("pitch_shift",
                 [semitones |->
                     IF semitone_match.found
                     THEN Num(IF Has(instructions, "down") \/ Has(instructions, "lower")
                              THEN -semitone_match.number ELSE semitone_match.number)
                     ELSE IF Has(instructions, "higher") \/ Has(instructions, "up") THEN Num(2)
                     ELSE IF Has(instructions, "lower") \/ Has(instructions, "down")
                             \/ Has(instructions, "deeper") THEN Num(-2)
                     ELSE IF Has(instructions, "chipmunk") THEN Num(6)
                     ELSE Num(0)])>>
        ELSE << >>

\* the time stretch block (lines 301-324)
TimeStretchTopic(instructions) ==
    LET percent_match == ReSearch(instructions, Spell["%"], {"faster", "slower"})
    IN  IF AnyOf(instructions, {"faster", "slower", "speed", "tempo"})
        THEN <<Effect("time_stretch",
                 [rate |->
                     IF percent_match.found
                     THEN (IF percent_match.word = "faster"
                           THEN RAdd(Num(1), R(percent_match.number, 100))
                           ELSE RSub(Num(1), R(percent_match.number, 100)))
                     ELSE IF Has(instructions, "faster") \/ Has(instructions, "speed up")
                     THEN <<6, 5>>
                     ELSE IF Has(instructions, "slower") \/ Has(instructions, "slow down")
                     THEN <<4, 5>>
                     ELSE Num(1)])>>
        ELSE << >>

\* the stereo width block (lines 326-342)
StereoTopic(instructions) ==
    IF AnyOf(instructions, {"stereo", "width", "wide", "narrow", "mono"})
    THEN <<Effect("stereo_width",
                  [width |-> IF Has(instructions, "wider") \/ Has(instructions, "more")
                             THEN <<3, 2>>
                             ELSE IF Has(instructions, "narrower") \/ Has(instructions, "less")
                             THEN <<7, 10>>
                             ELSE IF Has(instructions, "mono") THEN Num(0)
                             ELSE Num(1)])>>
    ELSE << >>

\* the limiter block (lines 344-360)
LimiterTopic(instructions) ==
    IF AnyOf(instructions, {"louder", "maximize", "limit", "volume", "gain"})
    THEN <<Effect("limiter",
                  [gain |-> IF Has(instructions, "louder") \/ Has(instructions, "maximize")
                            THEN Num(6)
                            ELSE IF Has(instructions, "quieter") \/ Has(instructions, "softer")
                            THEN Num(-6)
                            ELSE Num(0),
                   threshold |-> <<-3, 10>>, release |-> Num(50)])>>
    ELSE << >>

\* the distortion block (lines 362-379)
DistortionTopic(instructions) ==
    IF AnyOf(instructions, {"distort", "distortion", "saturate", "saturation", "warm", "analog"})
    THEN <<Effect("distortion",
                  IF Has(instructions, "heavy") \/ Has(instructions, "more")
                  THEN [drive |-> Num(5), mix |-> <<7, 10>>]
                  ELSE IF Has(instructions, "subtle") \/ Has(instructions, "light")
                          \/ Has(instructions, "warm")
                  THEN [drive |-> <<3, 2>>, mix |-> <<3, 10>>]
                  ELSE [drive |-> Num(2), mix |-> <<1, 2>>])>>
    ELSE << >>

\* the filter block (lines 381-406)
FilterTopic(instructions) ==
    IF AnyOf(instructions, {"filter", "lowpass", "highpass", "bandpass", "telephone", "radio"})
    THEN <<Effect("filter",
             IF Has(instructions, "lowpass") \/ Has(instructions, "low pass")
             THEN [type |-> "lowpass", cutoff_low |-> Num(500),
                   cutoff_high |-> Num(1000), resonance |-> <<7, 10>>]
             ELSE IF Has(instructions, "highpass") \/ Has(instructions, "high pass")
             THEN [type |-> "highpass", cutoff_low |-> Num(1000),
                   cutoff_high |-> Num(3000), resonance |-> <<7, 10>>]
             ELSE IF Has(instructions, "telephone")
             THEN [type |-> "bandpass", cutoff_low |-> Num(800),
                   cutoff_high |-> Num(3000), resonance |-> <<7, 10>>]
             ELSE IF Has(instructions, "radio")
             THEN [type |-> "bandpass", cutoff_low |-> Num(500),
                   cutoff_high |-> Num(5000), resonance |-> <<7, 10>>]
             ELSE [type |-> "bandpass", cutoff_low |-> Num(500),
                   cutoff_high |-> Num(3000), resonance |-> <<7, 10>>])>>
    ELSE << >>

\* what each topic block appends for the (lowercased) instructions
Topics(instructions) ==
    [eq |-> EqTopic(instructions),
     compression |-> CompressionTopic(instructions),
     reverb |-> ReverbTopic(instructions),
     noise_reduction |-> NoiseTopic(instructions),
     pitch_shift |-> PitchTopic(instructions),
     time_stretch |-> TimeStretchTopic(instructions),
     stereo_width |-> StereoTopic(instructions),
     limiter |-> LimiterTopic(instructions),
     distortion |-> DistortionTopic(instructions),
     filter |-> FilterTopic(instructions)]

\* the chain after the topic blocks; the delay block reads the chain the four
\* blocks before it built
Scan(instructions, topic) ==
    ScanOrder([k \in (DOMAIN topic) \cup {"delay"} |->
                  IF k = "delay"
                  THEN DelayTopic(instructions,
                                  topic.eq \o topic.compression \o topic.reverb
                                      \o topic.noise_reduction)
                  ELSE topic[k]])

\* the fallback of lines 408-427 applied to the scanned chain
WithDefault(processing_chain, audio_analysis) ==
    IF NeedsDefault(processing_chain, audio_analysis)
    THEN DefaultEnhancement(audio_analysis[1])
    ELSE processing_chain

\* AudioProcessor.parse_instructions(instructions, audio_analysis)
parse_instructions(instructions, audio_analysis) ==
    WithDefault(Scan(Lower(instructions), Topics(Lower(instructions))), audio_analysis)

\* ------------------------------------------------------- LLMProcessor
\* eq_params of _rule_based_processing
RuleBasedEqParams(instructions) ==
    LET bass == IF ~Has(instructions, "bass") THEN EmptyMap
                ELSE IF More(instructions) THEN [low |-> Num(4)]
                ELSE IF Less(instructions) THEN [low |-> Num(-4)]
                ELSE [low |-> Num(2)]
        mid == IF ~Has(instructions, "mid") THEN bass
               ELSE IF More(instructions) THEN Put(bass, "mid", Num(3))
               ELSE IF Less(instructions) THEN Put(bass, "mid", Num(-3))
               ELSE bass
    IN  IF ~(Has(instructions, "treble") \/ Has(instructions, "high")) THEN mid
        ELSE IF More(instructions) THEN Put(mid, "high", Num(3))
        ELSE IF Less(instructions) THEN Put(mid, "high", Num(-3))
        ELSE mid

RuleBasedEq(instructions) ==
    IF /\ AnyOf(instructions, {"eq", "equalization", "equalizer", "bass", "treble", "mid",
                               "frequency", "frequencies", "tone"})
       /\ RuleBasedEqParams(instructions) # EmptyMap
    THEN <<Effect("eq", RuleBasedEqParams(instructions))>>
    ELSE << >>

RuleBasedCompression(instructions) ==
    IF ~AnyOf(instructions, {"compress", "compression", "dynamics", "punchy", "tight"})
    THEN << >>
    ELSE IF Has(instructions, "heavy") \/ Has(instructions, "strong")
    THEN <<Effect("compression", [threshold |-> Num(-24), ratio |-> Num(6),
                                  attack |-> Num(20), release |-> Num(250)])>>
    ELSE IF Has(instructions, "light") \/ Has(instructions, "gentle")
            \/ Has(instructions, "subtle")
    THEN <<Effect("compression", [threshold |-> Num(-18), ratio |-> Num(2),
                                  attack |-> Num(20), release |-> Num(250)])>>
    ELSE <<Effect("compression", [threshold |-> Num(-20), ratio |-> Num(3),
                                  attack |-> Num(20), release |-> Num(250)])>>

RuleBasedReverb(instructions) ==
    IF ~AnyOf(instructions, {"reverb", "echo", "space", "room", "hall", "ambience"})
    THEN << >>
    ELSE IF Has(instructions, "large") \/ Has(instructions, "hall")
            \/ Has(instructions, "cathedral")
    THEN <<Effect("reverb", [room_size |-> <<17, 20>>, damping |-> <<1, 2>>,
                             wet_level |-> <<2, 5>>, dry_level |-> <<7, 10>>])>>
    ELSE IF Has(instructions, "small") \/ Has(instructions, "room")
            \/ Has(instructions, "booth")
    THEN <<Effect("reverb", [room_size |-> <<3, 10>>, damping |-> <<1, 2>>,
                             wet_level |-> <<1, 4>>, dry_level |-> <<7, 10>>])>>
    ELSE <<Effect("reverb", [room_size |-> <<1, 2>>, damping |-> <<1, 2>>,
                             wet_level |-> <<33, 100>>, dry_level |-> <<7, 10>>])>>

RuleBasedNoise(instructions) ==
    IF AnyOf(instructions, {"noise", "clean", "background", "hiss", "hum"})
    THEN <<Effect("noise_reduction", [strength |-> <<1, 2>>, sensitivity |-> <<1, 2>>])>>
    ELSE << >>

\* the default enhancement of _rule_based_processing (lines 374-394)
RuleBasedDefault(analysis) ==
    (IF Get(analysis, "is_too_quiet", FALSE)
     THEN <<Effect("gain", [gain_db |-> Num(6)])>>
     ELSE << >>)
    \o (IF RLess(<<1, 100>>, Get(analysis, "noise_floor", Num(0)))
        THEN <<Effect("noise_reduction", [strength |-> <<2, 5>>, sensitivity |-> <<1, 2>>])>>
        ELSE << >>)
    \o <<Effect("eq", [low |-> Num(1), high |-> Num(1)])>>

RuleBasedScan(instructions) ==
    RuleBasedEq(instructions) \o RuleBasedCompression(instructions)
        \o RuleBasedReverb(instructions) \o RuleBasedNoise(instructions)

\* LLMProcessor._rule_based_processing(instructions, audio_analysis)
rule_based_processing(instructions, audio_analysis) ==
    IF RuleBasedScan(Lower(instructions)) = << >> /\ Truthy(audio_analysis)
    THEN RuleBasedDefault(audio_analysis[1])
    ELSE RuleBasedScan(Lower(instructions))

\* what a remote provider can answer: chains _parse_llm_response accepts
LlmChains == {<< >>, <<Effect("eq", [low |-> Num(2)])>>, <<Effect("chorus", EmptyMap)>>}

\* delay_buffer after the feedback iterations i..5 of apply_delay
RECURSIVE DelayTaps(_, _, _, _, _, _)
DelayTaps(audio_data, delay_samples, feedback, mix, i, delay_buffer) ==
    LET this_delay == delay_samples * i
        delay_gain == RPow(feedback, i - 1)
        n          == Len(audio_data)
    IN  IF i > 5 \/ this_delay >= n THEN delay_buffer
        ELSE DelayTaps(audio_data, delay_samples, feedback, mix, i + 1,
                 [k \in 1..n |->
                     IF k > this_delay
                     THEN RAdd(delay_buffer[k],
                               RMul(RMul(audio_data[k - this_delay], delay_gain), mix))
                     ELSE delay_buffer[k]])

\* variant of the clipping guard that never scales
PreventClippingNever(output) == output

\* "Prevent clipping": scale to a peak of 0.99 when the peak exceeds it
PreventClipping(output) ==
    IF RLess(<<99, 100>>, Peak(output))
    THEN [k \in 1..Len(output) |-> RMul(RDiv(output[k], Peak(output)), <<99, 100>>)]
    ELSE output

apply_delay(audio_data, sample_rate, parameters) ==
    LET delay_time    == Get(parameters, "time", <<1, 4>>)
        feedback      == Get(parameters, "feedback", <<3, 10>>)
        mix           == Get(parameters, "mix", <<3, 10>>)
        delay_samples == Trunc(RMul(delay_time, <<sample_rate, 1>>))
        n             == Len(audio_data)
        delay_buffer  == DelayTaps(audio_data, delay_samples, feedback, mix, 1,
                                   [k \in 1..n |-> <<0, 1>>])
        output        == [k \in 1..n |->
                            RAdd(RMul(RSub(<<1, 1>>, mix), audio_data[k]), delay_buffer[k])]
    IN  \* np.max of an empty array raises; the except branch returns the input
        IF n = 0 THEN audio_data ELSE PreventClipping(output)

\* int(x): truncation towards zero
PyInt(x) == IF x[1] < 0 THEN -((-x[1]) \div x[2]) ELSE x[1] \div x[2]

\* 10 ** (db / 20) for db a multiple of 20
DbToLinear(db) ==
    LET k == PyInt(RDiv(db, Num(20)))
    IN  IF k >= 0 THEN RPow(Num(10), k) ELSE RPow(<<1, 10>>, -k)

WholeTwenties(db) == RMul(Num(20), Num(PyInt(RDiv(db, Num(20))))) = db

\* the i-th smallest of the magnitudes of a (1-based)
RECURSIVE SortedAbs(_)
SortedAbs(a) ==
    IF Len(a) = 0 THEN << >>
    ELSE LET m == CHOOSE i \in 1..Len(a) : \A j \in 1..Len(a) : ~RLess(RAbs(a[j]), RAbs(a[i]))
         IN  <<RAbs(a[m])>> \o SortedAbs(SubSeq(a, 1, m - 1) \o SubSeq(a, m + 1, Len(a)))

\* np.percentile(np.abs(a), 5): linear interpolation at position 0.05 * (n - 1)
Percentile5(a) ==
    LET v == SortedAbs(a)
        pos == R(Len(a) - 1, 20)
        lo == PyInt(pos)
        frac == RSub(pos, Num(lo))
    IN  IF lo + 2 > Len(v) THEN v[lo + 1]
        ELSE RAdd(v[lo + 1], RMul(frac, RSub(v[lo + 2], v[lo + 1])))

\* AudioProcessor.analyze_audio on a mono buffer, by the keys parse_instructions
\* reads; np.max of an empty buffer raises and the except branch returns the
\* error dict
analyze_audio(audio_data, sample_rate) ==
    IF Len(audio_data) = 0 THEN AnalysisError
    ELSE AnalysisOf(Peak(audio_data), Percentile5(audio_data))

\* the keys describe_effect subscripts for an effect: a missing one raises KeyError
RequiredKeys(effect_type, parameters) ==
    CASE effect_type = "compression" -> {"threshold", "ratio", "attack", "release"}
      [] effect_type = "reverb" -> {"room_size", "wet_level"}
      [] effect_type = "noise_reduction" -> {"strength"}
      [] effect_type = "delay" -> {"time", "feedback", "mix"}
      [] effect_type = "pitch_shift" -> {"semitones"}
      [] effect_type = "time_stretch" -> {"rate"}
      [] effect_type = "stereo_width" -> {"width"}
      [] effect_type = "limiter" ->
            IF "gain" \in DOMAIN parameters /\ RLess(Num(0), parameters["gain"])
            THEN {"gain", "threshold"} ELSE {"gain"}
      [] effect_type = "distortion" -> {"drive"}
      [] effect_type = "filter" ->
            IF "type" \notin DOMAIN parameters THEN {"type"}
            ELSE IF parameters["type"] = "lowpass" THEN {"type", "cutoff_high"}
            ELSE IF parameters["type"] = "highpass" THEN {"type", "cutoff_low"}
            ELSE {"type", "cutoff_low", "cutoff_high"}
      [] OTHER -> {}

\* int(x * 100)
Percent(x) == PyInt(RMul(x, Num(100)))

\* the description describe_effect formats: the template and the values put in it
Description(effect_type, parameters) ==
    LET p == parameters
        Part(band, name) ==
            IF band \in DOMAIN p
            THEN <<<<RAbs(p[band]), IF RLess(Num(0), p[band]) THEN "boost" ELSE "cut", name>>>>
            ELSE << >>
    IN  CASE effect_type = "eq" ->
                <<"Applied EQ", Part("low", "bass") \o Part("mid", "mids") \o Part("high", "treble")>>
          [] effect_type = "compression" ->
                <<"Applied compression", p["threshold"], p["ratio"], p["attack"], p["release"]>>
          [] effect_type = "reverb" ->
                <<"Added reverb", Percent(p["room_size"]), Percent(p["wet_level"])>>
          [] effect_type = "noise_reduction" ->
                <<"Applied noise reduction", Percent(p["strength"])>>
          [] effect_type = "delay" ->
                <<"Added delay", PyInt(RMul(p["time"], Num(1000))), Percent(p["feedback"]),
                  Percent(p["mix"])>>
          [] effect_type = "pitch_shift" ->
                <<"Shifted pitch", IF RLess(Num(0), p["semitones"]) THEN "up" ELSE "down",
                  RAbs(p["semitones"])>>
          [] effect_type = "time_stretch" ->
                IF RLess(Num(1), p["rate"])
                THEN <<"Sped up", Percent(RSub(p["rate"], Num(1)))>>
                ELSE <<"Slowed down", Percent(RSub(Num(1), p["rate"]))>>
          [] effect_type = "stereo_width" ->
                IF p["width"] = Num(0) THEN <<"Converted to mono">>
                ELSE IF RLess(p["width"], Num(1))
                THEN <<"Narrowed stereo width", Percent(RSub(Num(1), p["width"]))>>
                ELSE <<"Widened stereo width", Percent(RSub(p["width"], Num(1)))>>
          [] effect_type = "limiter" ->
                IF RLess(Num(0), p["gain"])
                THEN <<"Maximized loudness", p["gain"], p["threshold"]>>
                ELSE <<"Reduced volume", RAbs(p["gain"])>>
          [] effect_type = "distortion" ->
                <<"Added distortion",
                  IF RLess(p["drive"], Num(2)) THEN "subtle"
                  ELSE IF RLess(p["drive"], Num(4)) THEN "moderate" ELSE "heavy">>
          [] effect_type = "filter" ->
                IF p["type"] = "lowpass" THEN <<"Applied lowpass filter", p["cutoff_high"]>>
                ELSE IF p["type"] = "highpass" THEN <<"Applied highpass filter", p["cutoff_low"]>>
                ELSE <<"Applied bandpass filter", p["cutoff_low"], p["cutoff_high"]>>
          [] OTHER -> <<"Applied", effect_type>>

\* AudioProcessor.describe_effect: [raised, description]
describe_effect(effect_type, parameters) ==
    IF RequiredKeys(effect_type, parameters) \subseteq DOMAIN parameters
    THEN [raised |-> FALSE, description |-> Description(effect_type, parameters)]
    ELSE [raised |-> TRUE, description |-> <<"KeyError">>]

\* the frequency bands of apply_eq, in Hz
bands ==
    [low |-> <<20, 250>>, low_mid |-> <<250, 1000>>, mid |-> <<500, 2000>>,
     high_mid |-> <<1000, 5000>>, high |-> <<5000, 20000>>]

\* signal.butter(2, Wn, ...) raises ValueError unless 0 < Wn < 1 for every
\* critical frequency (given as Hz over the Nyquist frequency sample_rate / 2)
ButterRaises(frequencies, sample_rate) ==
    \E f \in frequencies : ~RLess(Num(0), f) \/ ~RLess(RMul(f, Num(2)), Num(sample_rate))

\* the bands apply_eq filters: those named in parameters with a non-zero gain
ActiveBands(parameters) ==
    {band \in (DOMAIN parameters) \cap (DOMAIN bands) : parameters[band] # Num(0)}

\* the critical frequencies apply_eq designs the filter of a band with
BandFrequencies(band) ==
    IF band = "low" THEN {Num(bands[band][2])}
    ELSE IF band = "high" THEN {Num(bands[band][1])}
    ELSE {Num(bands[band][1]), Num(bands[band][2])}

\* an effect function: [failed, audio]; failed: an exception was caught
\* inside the function, which then returns its audio_data argument
Failed(audio_data) == [failed |-> TRUE, audio |-> audio_data]

Done(output) == [failed |-> FALSE, audio |-> output]

\* apply_eq where no filter can be designed: with no active band only the
\* clipping guard runs; butter raising for a band is caught
apply_eq(audio_data, sample_rate, parameters) ==
    CASE ActiveBands(parameters) = {} ->
            IF Len(audio_data) = 0 THEN Failed(audio_data)
            ELSE Done(PreventClipping(audio_data))
      [] /\ ActiveBands(parameters) # {}
         /\ \A band \in ActiveBands(parameters) :
               ButterRaises(BandFrequencies(band), sample_rate) ->
            Failed(audio_data)

\* apply_compression where the makeup gain 1 / (10 ** (threshold / 20) *
\* (1 - 1 / ratio)) divides by zero: the ZeroDivisionError is caught
apply_compression(audio_data, sample_rate, parameters) ==
    CASE Get(parameters, "ratio", Num(4)) \in {Num(0), Num(1)} -> Failed(audio_data)

\* apply_filter where butter raises for the cutoffs
apply_filter(audio_data, sample_rate, parameters) ==
    LET filter_type == Get(parameters, "type", "bandpass")
        cutoff_low == Get(parameters, "cutoff_low", Num(500))
        cutoff_high == Get(parameters, "cutoff_high", Num(3000))
        frequencies == IF filter_type = "lowpass" THEN {cutoff_high}
                       ELSE IF filter_type = "highpass" THEN {cutoff_low}
                       ELSE {cutoff_low, cutoff_high}
    IN  CASE ButterRaises(frequencies, sample_rate) -> Failed(audio_data)

\* apply_stereo_width on a mono buffer: "If mono, return as is"
apply_stereo_width(audio_data, sample_rate, parameters) == Done(audio_data)

\* the 1e-10 added to the peak in apply_distortion; the stand-in keeps the
\* quotients inside the integer range and, like 1e-10, is positive
DistortionEpsilon == <<1, 1024>>

\* apply_distortion with mix = 0, where mix * np.tanh(driven) is zero:
\* normalize by the peak, mix, scale back by the peak, prevent clipping
apply_distortion(audio_data, sample_rate, parameters) ==
    LET mix == Get(parameters, "mix", <<1, 2>>)
        level == RAdd(Peak(audio_data), DistortionEpsilon)
        normalized == [k \in 1..Len(audio_data) |-> RDiv(audio_data[k], level)]
        output == [k \in 1..Len(audio_data) |->
                      RMul(RMul(RSub(Num(1), mix), normalized[k]), level)]
    IN  CASE mix = Num(0) ->
            IF Len(audio_data) = 0 THEN Failed(audio_data)
            ELSE Done(PreventClipping(output))

\* the gain array of apply_gate up to sample i
RECURSIVE GateGain(_, _, _, _, _, _)
GateGain(audio_data, threshold_linear, ratio, attack_samples, release_samples, i) ==
    LET input_level == RAbs(audio_data[i])
        target_gain == IF RLess(input_level, threshold_linear)
                       THEN RPow(RDiv(input_level, threshold_linear), ratio)
                       ELSE Num(1)
        previous == GateGain(audio_data, threshold_linear, ratio, attack_samples,
                             release_samples, i - 1)
        samples == IF RLess(target_gain, previous) THEN attack_samples ELSE release_samples
    IN  IF i = 1 THEN target_gain
        ELSE RAdd(previous, RDiv(RSub(target_gain, previous), Num(samples)))

\* apply_gate for a threshold of whole multiples of 20 dB and a whole ratio
apply_gate(audio_data, sample_rate, parameters) ==
    LET threshold_db == Get(parameters, "threshold", Num(-40))
        ratio == Get(parameters, "ratio", Num(10))
        attack_ms == Get(parameters, "attack", Num(1))
        release_ms == Get(parameters, "release", Num(100))
        Samples(ms) == LET n == PyInt(RDiv(RMul(ms, Num(sample_rate)), Num(1000)))
                       IN  IF n < 1 THEN 1 ELSE n
    IN  CASE WholeTwenties(threshold_db) /\ ratio[2] = 1 /\ ratio[1] >= 0 ->
            Done([i \in 1..Len(audio_data) |->
                    RMul(audio_data[i],
                         GateGain(audio_data, DbToLinear(threshold_db), ratio[1],
                                  Samples(attack_ms), Samples(release_ms), i))])

\* self.supported_effects[effect_type](processed_audio, sample_rate, parameters).
\* reverb (a random impulse response), noise_reduction, pitch_shift and
\* time_stretch (librosa), limiter and distortion (irrational gains) have no
\* exact value here; the chains of this model carry them only with parameter
\* maps on which describe_effect raises, where process_audio drops their output
ApplyEffect(effect, audio, sample_rate) ==
    CASE effect.type = "delay" ->
            IF Len(audio) = 0 THEN Failed(audio)
            ELSE Done(apply_delay(audio, sample_rate, effect.parameters))
      [] effect.type = "eq" -> apply_eq(audio, sample_rate, effect.parameters)
      [] effect.type = "compression" -> apply_compression(audio, sample_rate, effect.parameters)
      [] effect.type = "filter" -> apply_filter(audio, sample_rate, effect.parameters)
      [] effect.type = "stereo_width" -> apply_stereo_width(audio, sample_rate, effect.parameters)
      [] effect.type = "gate" -> apply_gate(audio, sample_rate, effect.parameters)

\* the loop of process_audio over processing_chain[k..]:
\*   [raised, audio (processed_audio), steps (processing_steps)]
RECURSIVE ApplyChainFrom(_, _, _, _, _)
ApplyChainFrom(processing_chain, k, processed_audio, processing_steps, sample_rate) ==
    IF k > Len(processing_chain)
    THEN [raised |-> FALSE, audio |-> processed_audio, steps |-> processing_steps]
    ELSE LET effect == processing_chain[k]
             step_description == describe_effect(effect.type, effect.parameters)
         IN  IF effect.type \notin supported_effects
             THEN ApplyChainFrom(processing_chain, k + 1, processed_audio,
                                 processing_steps, sample_rate)
             ELSE IF step_description.raised
             THEN [raised |-> TRUE, audio |-> processed_audio, steps |-> processing_steps]
             ELSE ApplyChainFrom(processing_chain, k + 1,
                                 ApplyEffect(effect, processed_audio, sample_rate).audio,
                                 Append(processing_steps, step_description.description),
                                 sample_rate)

\* the processing_steps of the except branch of process_audio
ErrorSteps == <<<<"Error">>>>

\* the chain process_audio applies: "if effects is None: ... else: ..."
ProcessingChain(audio_data, sample_rate, instructions, effects) ==
    IF Len(effects) = 0
    THEN parse_instructions(instructions, Some(analyze_audio(audio_data, sample_rate)))
    ELSE effects[1]

\* the try / except of process_audio around the loop
Outcome(audio_data, run) ==
    IF run.raised THEN [audio |-> audio_data, steps |-> ErrorSteps]
    ELSE [audio |-> run.audio, steps |-> run.steps]

\* AudioProcessor.process_audio(audio_data, sample_rate, instructions, effects):
\*   [audio |-> processed_audio, steps |-> processing_steps]
process_audio(audio_data, sample_rate, instructions, effects) ==
    Outcome(audio_data,
            ApplyChainFrom(ProcessingChain(audio_data, sample_rate, instructions, effects),
                           1, audio_data, << >>, sample_rate))

\* -------------------------------------------------- ParallelProcessor
VARIABLES
    pc,                \* "idle" | "collecting" | "returned" | "raised"
    audio_data,        \* the source buffer of the current call
    sample_rate,
    chunk_size,        \* int(chunk_duration_seconds * sample_rate)
    overlap_size,      \* int(overlap_seconds * sample_rate)
    process_func,      \* the callable of the current call
    effects,           \* kwargs["effects"] (the chain) of the current call
    chunks,            \* list of source slices
    positions,         \* list of (start_pos, end_pos)
    future_state,      \* per chunk index (0-based): "pending" | "result" | "exception"
    processed_chunks,  \* list of (chunk_idx, chunk) in completion order
    merged_audio       \* the value returned to the caller

parVars == <<pc, audio_data, sample_rate, chunk_size, overlap_size, process_func,
             effects, chunks, positions, future_state, processed_chunks, merged_audio>>

\* state of the CacheManager singleton and of its cache directory
VARIABLES
    cache_index,    \* self.cache_index: namespace -> ordered list of entries
    cache_files,    \* payload files on disk: namespace -> (filename -> content)
    index_file,     \* content of cache_index.json
    hits,
    misses,
    now,            \* time.time(), in seconds
    lookup_result,  \* what the last lookup returned
    last_stored,    \* history: the payload last stored, without failure, per key
    last_op,        \* history: the last completed cache operation
    ops,            \* history: number of completed cache operations
    swept,          \* history: index, payload files and time the last sweep started from
    last_key        \* history: namespace and key of the last store

cacheVars == <<cache_index, cache_files, index_file, hits, misses, now,
               lookup_result, last_stored, last_op, ops, swept, last_key>>

\* one call of AudioProcessor.parse_instructions or AudioProcessor.process_audio
VARIABLES
    proc_pc,            \* "idle" | "parsed" | "processed" | "applied" | "fell_back" | "answered"
    proc_instructions,  \* the instructions argument, as its phrases
    proc_analysis,      \* the audio_analysis argument of parse_instructions
    proc_chain,         \* the chain parse_instructions returned
    proc_audio,         \* the audio_data argument of process_audio
    proc_rate,          \* the sample_rate argument of process_audio
    proc_effects,       \* the effects argument of process_audio
    proc_result         \* what process_audio returned: [audio, steps]

procVars == <<proc_pc, proc_instructions, proc_analysis, proc_chain, proc_audio,
              proc_rate, proc_effects, proc_result>>

\* the requests served by AudioChatSystem.process_audio
VARIABLES
    sys_pc,         \* "idle" | "missed" | "processed" | "stored" | "returned" | "raised"
    requests,       \* number of requests entered
    request,        \* the arguments of the current request
    sys_audio,      \* processed_audio of the current request
    trace,          \* history: what the current request did, in order
    response,       \* the audio the last request wrote to its output file
    served          \* history: per request returned, its arguments and outcome

sysVars == <<sys_pc, requests, request, sys_audio, trace, response, served>>

\* state of the ExtensionsManager singleton and of its directory
VARIABLES
    user_extensions,  \* self.user_extensions: user_id -> set of extension ids
    user_file,        \* content of user_extensions.json
    ext_calls         \* history: the calls made, in order, with what they returned

extVars == <<user_extensions, user_file, ext_calls>>

\* two threads inside CacheManager.cache_processed_audio on one CacheManager
VARIABLES
    st_pc,        \* per thread: "idle" | "called" | "written" | "indexed" | "opened" | "dumped" | "done"
    st_call,      \* per thread: the cache key and the payload of its call
    st_buffer,    \* per thread: what json.dump put into the buffer of its file object
    mem_index,    \* self.cache_index["audio"], shared by the threads
    wav_files,    \* the payload files of the audio namespace
    json_file,    \* the bytes of cache_index.json: [whole, text, size]
    write_order   \* history: the threads in the order their payload writes finished

conVars == <<st_pc, st_call, st_buffer, mem_index, wav_files, json_file, write_order>>

\* outcome of process_func(chunk, sample_rate, **kwargs):
\*   [raised |-> BOOLEAN, value |-> the returned buffer]
\* apply_effects_to_chunk looks up audio_processor.apply_effects_chain, an
\* attribute AudioProcessor does not have: the lookup raises AttributeError.
CallProcessFunc(func, chunk, sr, chain) ==
    CASE func = "halve" ->
            [raised |-> FALSE,
             value  |-> [k \in 1..Len(chunk) |-> RMul(chunk[k], <<1, 2>>)]]
      [] func = "drop_last" ->
            [raised |-> FALSE, value |-> Slice(chunk, 0, Len(chunk) - 1)]
      [] func = "apply_effects_to_chunk" ->
            [raised |-> "apply_effects_chain" \notin AudioProcessorMethods,
             value  |-> process_audio(chunk, sr, << >>, Some(chain)).audio]

\* variant of the split loop that does not clip the last chunk to the buffer
RECURSIVE SplitFromUnclipped(_, _, _, _)
SplitFromUnclipped(start_pos, n, size, overlap) ==
    LET end_pos == start_pos + size
    IN  IF start_pos >= n THEN << >>
        ELSE IF end_pos >= n THEN << <<start_pos, end_pos>> >>
        ELSE << <<start_pos, end_pos>> >>
                 \o SplitFromUnclipped(start_pos + (size - overlap), n, size, overlap)

\* variant of the split loop that strides by a whole chunk
RECURSIVE SplitFromWholeStride(_, _, _, _)
SplitFromWholeStride(start_pos, n, size, overlap) ==
    LET end_pos == IF start_pos + size < n THEN start_pos + size ELSE n
    IN  IF start_pos >= n THEN << >>
        ELSE IF end_pos = n THEN << <<start_pos, end_pos>> >>
        ELSE << <<start_pos, end_pos>> >> \o SplitFromWholeStride(start_pos + size, n, size, overlap)

\* the split loop: positions of the chunks starting at start_pos, start_pos + stride, ...
RECURSIVE SplitFrom(_, _, _, _)
SplitFrom(start_pos, n, size, overlap) ==
    LET end_pos == IF start_pos + size < n THEN start_pos + size ELSE n
    IN  IF start_pos >= n THEN << >>
        ELSE IF end_pos = n THEN << <<start_pos, end_pos>> >>
        ELSE << <<start_pos, end_pos>> >> \o SplitFrom(start_pos + (size - overlap), n, size, overlap)

SplitPositions(n, size, overlap) == SplitFrom(0, n, size, overlap)

\* variant of the fade-out that keeps the full weight of the previous chunk
FadeOutFull(num, j) == <<1, 1>>

\* np.linspace(0, 1, num)[j] and np.linspace(1, 0, num)[j], j 0-based
FadeIn(num, j) == IF num = 1 THEN <<0, 1>> ELSE R(j, num - 1)

FadeOut(num, j) == IF num = 1 THEN <<1, 1>> ELSE RSub(<<1, 1>>, R(j, num - 1))

\* output[lo:hi] = value under numpy's assignment rule: the value has the
\* length of the slice, or length 1 (broadcast); otherwise ValueError
CanAssign(lo, hi, value) == Len(value) = hi - lo \/ Len(value) = 1

Assign(output, lo, hi, value) ==
    [k \in 1..Len(output) |->
        IF k > lo /\ k <= hi
        THEN (IF Len(value) = 1 THEN value[1] ELSE value[k - lo])
        ELSE output[k]]

\* one iteration (chunk i, 0-based, i >= 1) of the merge loop
\*   [ok |-> FALSE] when a shape mismatch raises ValueError
MergeChunk(output, cs, pos, i) ==
    LET start_pos      == pos[i + 1][1]
        end_pos        == pos[i + 1][2]
        prev_end       == pos[i][2]
        overlap_start  == start_pos
        overlap_end    == IF prev_end < end_pos THEN prev_end ELSE end_pos
        overlap_length == overlap_end - overlap_start
        chunk          == cs[i + 1]
        head           == Slice(chunk, 0, overlap_length)
        tail           == Slice(chunk, overlap_length, Len(chunk))
        faded          == [j \in 1..overlap_length |->
                             RAdd(RMul(output[overlap_start + j], FadeOut(overlap_length, j - 1)),
                                  RMul(IF Len(head) = 1 THEN head[1] ELSE head[j],
                                       FadeIn(overlap_length, j - 1)))]
    IN  IF overlap_length > 0
        THEN IF CanAssign(overlap_start, overlap_end, head) /\ CanAssign(overlap_end, end_pos, tail)
             THEN [ok |-> TRUE,
                   out |-> Assign(Assign(output, overlap_start, overlap_end, faded),
                                  overlap_end, end_pos, tail)]
             ELSE [ok |-> FALSE, out |-> output]
        ELSE IF CanAssign(start_pos, end_pos, chunk)
             THEN [ok |-> TRUE, out |-> Assign(output, start_pos, end_pos, chunk)]
             ELSE [ok |-> FALSE, out |-> output]

RECURSIVE MergeFrom(_, _, _, _)
MergeFrom(output, cs, pos, i) ==
    IF i >= Len(cs) THEN [ok |-> TRUE, out |-> output]
    ELSE LET step == MergeChunk(output, cs, pos, i)
         IN  IF step.ok THEN MergeFrom(step.out, cs, pos, i + 1) ELSE step

\* _merge_chunks_with_crossfade(chunks, positions, overlap_size)
merge_chunks_with_crossfade(cs, pos, overlap) ==
    LET output_length == pos[Len(pos)][2]
        output        == [k \in 1..output_length |-> <<0, 1>>]
    IN  IF CanAssign(pos[1][1], pos[1][2], cs[1])
        THEN MergeFrom(Assign(output, pos[1][1], pos[1][2], cs[1]), cs, pos, 1)
        ELSE [ok |-> FALSE, out |-> output]

\* variant that keeps the completion order
CompletionOrder(pairs) == [i \in 1..Len(pairs) |-> pairs[i][2]]

\* processed_chunks.sort(key=lambda x: x[0]); [chunk for _, chunk in processed_chunks]
SortByIndex(pairs) ==
    [i \in 1..Len(pairs) |->
        LET k == CHOOSE k \in 1..Len(pairs) : pairs[k][1] = i - 1 IN pairs[k][2]]

NoBuffer == << >>

ParInit ==
    /\ pc = "idle"
    /\ audio_data = NoBuffer
    /\ sample_rate = 1
    /\ chunk_size = 1
    /\ overlap_size = 0
    /\ process_func = "halve"
    /\ effects = << >>
    /\ chunks = << >>
    /\ positions = << >>
    /\ future_state = << >>
    /\ processed_chunks = << >>
    /\ merged_audio = NoBuffer

\* the (func, chain) pairs a caller passes: only apply_effects_to_chunk takes a chain
Calls == {<<f, << >> >> : f \in {"halve", "drop_last"}}
            \cup {<<"apply_effects_to_chunk", c>> : c \in EffectChains}

\* common entry of a call: lines 52-53
Enter(a, sr, chunk_duration_seconds, overlap_seconds, call) ==
    /\ audio_data' = a
    /\ sample_rate' = sr
    /\ chunk_size' = Trunc(RMul(chunk_duration_seconds, <<sr, 1>>))
    /\ overlap_size' = Trunc(RMul(overlap_seconds, <<sr, 1>>))
    /\ chunk_size' >= 1
    /\ overlap_size' < chunk_size'
    /\ process_func' = call[1]
    /\ effects' = call[2]

\* process_audio_parallel on a buffer no longer than one chunk: the direct
\* call of process_func, whose exception (if any) propagates to the caller
ProcessSingleChunk ==
    /\ pc = "idle"
    /\ \E a \in AudioBuffers, sr \in SampleRates, cd \in ChunkDurations, ov \in OverlapDurations, call \in Calls :
        /\ Enter(a, sr, cd, ov, call)
        /\ Len(a) <= chunk_size'
        /\ LET r == CallProcessFunc(call[1], a, sr, call[2])
           IN  IF r.raised
               THEN pc' = "raised" /\ merged_audio' = NoBuffer
               ELSE pc' = "returned" /\ merged_audio' = r.value
        /\ chunks' = << >>
        /\ positions' = << >>
        /\ future_state' = << >>
        /\ processed_chunks' = << >>
    /\ UNCHANGED <<cacheVars, procVars, sysVars, extVars, conVars>>

\* process_audio_parallel on a longer buffer, up to the submission of all chunks
SplitAndSubmit ==
    /\ pc = "idle"
    /\ \E a \in AudioBuffers, sr \in SampleRates, cd \in ChunkDurations, ov \in OverlapDurations, call \in Calls :
        /\ Enter(a, sr, cd, ov, call)
        /\ Len(a) > chunk_size'
        /\ positions' = SplitPositions(Len(a), chunk_size', overlap_size')
        /\ chunks' = [i \in 1..Len(positions') |-> Slice(a, positions'[i][1], positions'[i][2])]
        /\ future_state' = [i \in 1..Len(positions') |-> "pending"]
        /\ processed_chunks' = << >>
        /\ merged_audio' = NoBuffer
        /\ pc' = "collecting"
    /\ UNCHANGED <<cacheVars, procVars, sysVars, extVars, conVars>>

\* a future resolves with a result and as_completed yields it (try branch)
WorkerReturns(i) ==
    /\ pc = "collecting"
    /\ future_state[i + 1] = "pending"
    /\ LET r == CallProcessFunc(process_func, chunks[i + 1], sample_rate, effects)
       IN  /\ ~r.raised
           /\ processed_chunks' = Append(processed_chunks, <<i, r.value>>)
    /\ future_state' = [future_state EXCEPT ![i + 1] = "result"]
    /\ UNCHANGED <<pc, audio_data, sample_rate, chunk_size, overlap_size, process_func,
                   effects, chunks, positions, merged_audio>>
    /\ UNCHANGED <<cacheVars, procVars, sysVars, extVars, conVars>>

\* variant without the except branch: the exception leaves the call
WorkerFailsReraised(i) ==
    /\ pc = "collecting"
    /\ future_state[i + 1] = "pending"
    /\ pc' = "raised"
    /\ future_state' = [future_state EXCEPT ![i + 1] = "exception"]
    /\ UNCHANGED <<audio_data, sample_rate, chunk_size, overlap_size, process_func,
                   effects, chunks, positions, processed_chunks, merged_audio>>
    /\ UNCHANGED <<cacheVars, procVars, sysVars, extVars, conVars>>

\* a future resolves with an exception (the function raised, could not be
\* sent to the worker, or the worker died): the original chunk is the fallback
WorkerFails(i) ==
    /\ pc = "collecting"
    /\ future_state[i + 1] = "pending"
    /\ processed_chunks' = Append(processed_chunks, <<i, chunks[i + 1]>>)
    /\ future_state' = [future_state EXCEPT ![i + 1] = "exception"]
    /\ UNCHANGED <<pc, audio_data, sample_rate, chunk_size, overlap_size, process_func,
                   effects, chunks, positions, merged_audio>>
    /\ UNCHANGED <<cacheVars, procVars, sysVars, extVars, conVars>>

\* variant that returns at the first resolved future, without waiting for the rest
SortAndMergeFirstResolved ==
    /\ pc = "collecting"
    /\ Len(processed_chunks) >= 1
    /\ pc' = "returned"
    /\ merged_audio' = processed_chunks[1][2]
    /\ UNCHANGED <<audio_data, sample_rate, chunk_size, overlap_size, process_func,
                   effects, chunks, positions, future_state, processed_chunks>>
    /\ UNCHANGED <<cacheVars, procVars, sysVars, extVars, conVars>>

\* all futures resolved: sort by index, merge with crossfade, return
SortAndMerge ==
    /\ pc = "collecting"
    /\ \A i \in 1..Len(future_state) : future_state[i] # "pending"
    /\ LET m == merge_chunks_with_crossfade(SortByIndex(processed_chunks), positions, overlap_size)
       IN  IF m.ok
           THEN pc' = "returned" /\ merged_audio' = m.out
           ELSE pc' = "raised" /\ merged_audio' = NoBuffer
    /\ UNCHANGED <<audio_data, sample_rate, chunk_size, overlap_size, process_func,
                   effects, chunks, positions, future_state, processed_chunks>>
    /\ UNCHANGED <<cacheVars, procVars, sysVars, extVars, conVars>>

ParNext ==
    \/ ProcessSingleChunk
    \/ SplitAndSubmit
    \/ \E i \in 0..(MaxLen - 1) : i < Len(future_state) /\ WorkerReturns(i)
    \/ \E i \in 0..(MaxLen - 1) : i < Len(future_state) /\ WorkerFails(i)
    \/ SortAndMerge

\* ------------------------------------------------------- CacheManager
Namespaces == {"audio", "analysis", "waveform"}

\* the order in which _clean_old_cache and clear_cache visit the namespaces
NamespaceOrder == <<"audio", "analysis", "waveform">>

FileIds == {"a", "b"}

None == "None"

\* the requests get_processed_audio / cache_processed_audio are called with
AudioRequests ==
    {[file_id |-> f, instructions |-> "Add some reverb", effects |-> None, segment |-> None]
        : f \in FileIds}

\* md5(json.dumps(data, sort_keys=True)): the canonical serialisation, keys
\* sorted; the digest is taken to be collision free on it
generate_cache_key(data) == <<data.effects, data.file_id, data.instructions, data.segment>>

\* the cache keys of a namespace; the analysis and waveform namespaces are
\* exercised with the one file "a" (the waveform at the default 1000 points)
Keys(ns) ==
    CASE ns = "audio" -> {generate_cache_key(r) : r \in AudioRequests}
      [] ns = "analysis" -> {<<"analysis", "a">>}
      [] ns = "waveform" -> {<<"waveform", "a", 1000>>}

\* f"{cache_key}.wav" / f"{cache_key}.json"
Filename(ns, key) == <<key, IF ns = "audio" THEN "wav" ELSE "json">>

\* the payloads handed to the store operations
Payloads(ns) ==
    CASE ns = "audio" ->
            {[data |-> <<<<1, 2>>, <<-1, 4>>>>, samplerate |-> 44100],
             [data |-> <<<<1, 3>>>>, samplerate |-> 44100]}
      [] ns = "analysis" ->
            {[rms_level |-> <<1, 10>>, peak_level |-> <<1, 2>>]}
      [] ns = "waveform" ->
            {[points |-> <<<<1, 2>>, <<-1, 3>>>>]}

\* lrint: round to nearest, ties to even, of n / d with d > 0
RoundHalfEven(n, d) ==
    LET q == n \div d
        r == n - q * d
    IN  IF 2 * r < d THEN q
        ELSE IF 2 * r > d THEN q + 1
        ELSE IF q % 2 = 0 THEN q ELSE q + 1

Pcm16WriteScale == 32767

Pcm16ReadScale == 32768

\* sf.write(cache_path, audio_data, sample_rate): a .wav file without a
\* subtype is written as PCM_16, each sample as lrint(x * 0x7FFF)
sf_write(payload) ==
    [fmt |-> "wav",
     frames |-> [k \in 1..Len(payload.data) |->
                    RoundHalfEven(payload.data[k][1] * Pcm16WriteScale, payload.data[k][2])],
     samplerate |-> payload.samplerate]

\* sf.read(cache_path): float64 samples frame / 0x8000
sf_read(content) ==
    [data |-> [k \in 1..Len(content.frames) |-> R(content.frames[k], Pcm16ReadScale)],
     samplerate |-> content.samplerate]

\* json.dump(data, f): the numbers are written with repr, which json.load reads back
json_dump(payload) == [fmt |-> "json", text |-> payload]

json_load(content) == content.text

Encode(ns, payload) == IF ns = "audio" THEN sf_write(payload) ELSE json_dump(payload)

Decode(ns, content) == IF ns = "audio" THEN sf_read(content) ELSE json_load(content)

\* a payload file left behind by a write that failed part-way
Corrupt == [fmt |-> "corrupt"]

NoFiles == [fn \in {} |-> Corrupt]

WriteFile(files, fn, content) ==
    [g \in (DOMAIN files) \cup {fn} |-> IF g = fn THEN content ELSE files[g]]

RemoveFiles(files, fns) == [g \in (DOMAIN files) \ fns |-> files[g]]

\* key in self.cache_index[ns]
InIndex(index, key) == \E k \in 1..Len(index) : index[k].key = key

\* self.cache_index[ns][key]
EntryOf(index, key) == index[CHOOSE k \in 1..Len(index) : index[k].key = key]

\* self.cache_index[ns][key] = entry (a dict keeps the position of an existing key)
PutEntry(index, entry) ==
    IF InIndex(index, entry.key)
    THEN [k \in 1..Len(index) |-> IF index[k].key = entry.key THEN entry ELSE index[k]]
    ELSE Append(index, entry)

DaySeconds == 24 * 60 * 60

max_age_days == 7

\* the readings of time.time() the operations see, in days since the first:
\* an entry stored at 0 is exactly max_age_days old at 7 and older at 8
ClockDays == {0, 7, 8}

EmptyIndex == [ns \in Namespaces |-> << >>]

NoPayload == [none |-> TRUE]

CacheInit ==
    /\ cache_index = EmptyIndex
    /\ cache_files = [ns \in Namespaces |-> NoFiles]
    /\ index_file = EmptyIndex
    /\ hits = 0
    /\ misses = 0
    /\ now = 0
    /\ lookup_result = [ns |-> None, key |-> None, hit |-> FALSE, value |-> NoPayload,
                        timestamp |-> 0, time |-> 0]
    /\ last_stored = [ns \in Namespaces |-> [k \in Keys(ns) |-> NoPayload]]
    /\ last_op = "init"
    /\ ops = 0
    /\ swept = [index |-> EmptyIndex, files |-> [ns \in Namespaces |-> {}], time |-> 0]
    /\ last_key = [ns |-> None, key |-> None]

\* variant of _save_cache_index that never rewrites the file
SaveIndexSkipped(index, written) == index_file' = index_file

\* _save_cache_index: the write of cache_index.json, whose failure is only logged
SaveIndex(index, written) == index_file' = IF written THEN index ELSE index_file

\* what get_processed_audio / get_audio_analysis / get_waveform_data return
\* for a key in the current state
LookupOutcome(ns, key) ==
    LET miss == [hit |-> FALSE, value |-> NoPayload, timestamp |-> 0]
    IN  IF InIndex(cache_index[ns], key)
        THEN LET cache_entry == EntryOf(cache_index[ns], key)
                 cache_path  == cache_entry.filename
             IN  IF cache_path \in DOMAIN cache_files[ns]
                 THEN IF cache_files[ns][cache_path].fmt = "corrupt"
                      THEN miss    \* the read raises; the except branch falls through
                      ELSE [hit |-> TRUE,
                            value |-> Decode(ns, cache_files[ns][cache_path]),
                            timestamp |-> cache_entry.timestamp]
                 ELSE miss
        ELSE miss

\* get_processed_audio / get_audio_analysis / get_waveform_data
Lookup(ns, key) ==
    /\ ops < MaxOps
    /\ LET r == LookupOutcome(ns, key)
       IN  /\ lookup_result' = [ns |-> ns, key |-> key, hit |-> r.hit, value |-> r.value,
                                 timestamp |-> r.timestamp, time |-> now]
           /\ hits' = IF r.hit THEN hits + 1 ELSE hits
           /\ misses' = IF r.hit THEN misses ELSE misses + 1
    /\ last_op' = "lookup"
    /\ ops' = ops + 1
    /\ UNCHANGED <<cache_index, cache_files, index_file, now, last_stored, swept, last_key>>
    /\ UNCHANGED <<parVars, procVars, sysVars, extVars, conVars>>

\* cache_processed_audio / cache_audio_analysis / cache_waveform_data, the
\* payload write succeeding; written: whether the index file could be rewritten
Store(ns, key, payload, written) ==
    /\ ops < MaxOps
    /\ cache_files' = [cache_files EXCEPT ![ns] = WriteFile(@, Filename(ns, key), Encode(ns, payload))]
    /\ cache_index' = [cache_index EXCEPT
                          ![ns] = PutEntry(@, [key |-> key, filename |-> Filename(ns, key),
                                               timestamp |-> now])]
    /\ SaveIndex(cache_index', written)
    /\ last_stored' = [last_stored EXCEPT ![ns][key] = payload]
    /\ last_op' = "store"
    /\ last_key' = [ns |-> ns, key |-> key]
    /\ ops' = ops + 1
    /\ UNCHANGED <<hits, misses, now, lookup_result, swept>>
    /\ UNCHANGED <<parVars, procVars, sysVars, extVars, conVars>>

\* variant of the failing store that records the key in the index before
\* the payload write
StoreFailsIndexed(ns, key, leftover) ==
    /\ ops < MaxOps
    /\ cache_files' = IF leftover
                      THEN [cache_files EXCEPT ![ns] = WriteFile(@, Filename(ns, key), Corrupt)]
                      ELSE cache_files
    /\ cache_index' = [cache_index EXCEPT
                          ![ns] = PutEntry(@, [key |-> key, filename |-> Filename(ns, key),
                                               timestamp |-> now])]
    /\ last_stored' = [last_stored EXCEPT ![ns][key] = NoPayload]
    /\ last_op' = "store_failed"
    /\ last_key' = [ns |-> ns, key |-> key]
    /\ ops' = ops + 1
    /\ UNCHANGED <<index_file, hits, misses, now, lookup_result, swept>>
    /\ UNCHANGED <<parVars, procVars, sysVars, extVars, conVars>>

\* the same, the payload write raising: the except branch logs and returns;
\* leftover: whether the failed write left a truncated file behind
StoreFails(ns, key, leftover) ==
    /\ ops < MaxOps
    /\ cache_files' = IF leftover
                      THEN [cache_files EXCEPT ![ns] = WriteFile(@, Filename(ns, key), Corrupt)]
                      ELSE cache_files
    /\ last_stored' = [last_stored EXCEPT ![ns][key] = NoPayload]
    /\ last_op' = "store_failed"
    /\ last_key' = [ns |-> ns, key |-> key]
    /\ ops' = ops + 1
    /\ UNCHANGED <<cache_index, index_file, hits, misses, now, lookup_result, swept>>
    /\ UNCHANGED <<parVars, procVars, sysVars, extVars, conVars>>

Expired(entry) == now - entry.timestamp > max_age_days * DaySeconds

\* the keys of the entries of a namespace index that are older than max_age
ExpiredKeys(index) ==
    {index[k].key : k \in {k \in 1..Len(index) : Expired(index[k])}}

\* the failing sets a sweep of the index can meet: os.remove is called, and
\* so can raise, only for an expired entry whose payload file exists
CanFail(index, failing) ==
    \A ns \in Namespaces : \A key \in failing[ns] :
        /\ InIndex(index[ns], key)
        /\ Expired(EntryOf(index[ns], key))
        /\ EntryOf(index[ns], key).filename \in DOMAIN cache_files[ns]

\* variant of the sweep that deletes the index record before the payload
SweepRecordFirst(index, failing, written) ==
    LET Keep(ns) == LET K(entry) == entry.key \notin ExpiredKeys(index[ns])
                    IN  SelectSeq(index[ns], K)
    IN  /\ cache_files' = [ns \in Namespaces |->
               RemoveFiles(cache_files[ns],
                           {Filename(ns, key) : key \in ExpiredKeys(index[ns]) \ failing[ns]})]
        /\ cache_index' = [ns \in Namespaces |-> Keep(ns)]
        /\ SaveIndex(cache_index', written)

\* the three loops of _clean_old_cache over the index, then _save_cache_index;
\* failing: the expired entries whose os.remove raises (each is caught and
\* logged before the del, so its index record is kept)
Sweep(index, failing, written) ==
    LET Evicted(ns) == ExpiredKeys(index[ns]) \ failing[ns]
        Keep(ns) == LET K(entry) == entry.key \notin Evicted(ns)
                    IN  SelectSeq(index[ns], K)
    IN  /\ cache_files' = [ns \in Namespaces |->
               RemoveFiles(cache_files[ns], {Filename(ns, key) : key \in Evicted(ns)})]
        /\ cache_index' = [ns \in Namespaces |-> Keep(ns)]
        /\ SaveIndex(cache_index', written)

\* _clean_old_cache called on the live object
CleanOldCache(failing, written) ==
    /\ ops < MaxOps
    /\ CanFail(cache_index, failing)
    /\ Sweep(cache_index, failing, written)
    /\ last_stored' = [ns \in Namespaces |-> [key \in Keys(ns) |->
           IF InIndex(cache_index'[ns], key) THEN last_stored[ns][key] ELSE NoPayload]]
    /\ swept' = [index |-> cache_index, time |-> now,
                  files |-> [ns \in Namespaces |-> DOMAIN cache_files[ns]]]
    /\ last_op' = "clean_old_cache"
    /\ ops' = ops + 1
    /\ UNCHANGED <<hits, misses, now, lookup_result, last_key>>
    /\ UNCHANGED <<parVars, procVars, sysVars, extVars, conVars>>

\* CacheManager.__init__ in a new process over the same cache directory: the
\* counters start at zero, the index is loaded from cache_index.json and swept
Restart(failing, written) ==
    /\ ops < MaxOps
    /\ CanFail(index_file, failing)
    /\ Sweep(index_file, failing, written)
    /\ hits' = 0
    /\ misses' = 0
    /\ last_stored' = [ns \in Namespaces |-> [key \in Keys(ns) |-> NoPayload]]
    /\ swept' = [index |-> index_file, time |-> now,
                  files |-> [ns \in Namespaces |-> DOMAIN cache_files[ns]]]
    /\ last_op' = "init"
    /\ ops' = ops + 1
    /\ UNCHANGED <<now, lookup_result, last_key>>
    /\ UNCHANGED <<parVars, procVars, sysVars, extVars, conVars>>

IndexedFiles(ns) == {cache_index[ns][k].filename : k \in 1..Len(cache_index[ns])}

\* variant of clear_cache that also zeroes the statistics
ClearCacheResetsStats(written) ==
    /\ ops < MaxOps
    /\ cache_files' = [ns \in Namespaces |-> RemoveFiles(cache_files[ns], IndexedFiles(ns))]
    /\ cache_index' = EmptyIndex
    /\ SaveIndex(cache_index', written)
    /\ last_stored' = [ns \in Namespaces |-> [key \in Keys(ns) |-> NoPayload]]
    /\ last_op' = "clear_cache"
    /\ ops' = ops + 1
    /\ hits' = 0
    /\ misses' = 0
    /\ UNCHANGED <<now, lookup_result, swept, last_key>>
    /\ UNCHANGED <<parVars, procVars, sysVars, extVars, conVars>>

\* clear_cache, every os.remove succeeding
ClearCache(written) ==
    /\ ops < MaxOps
    /\ cache_files' = [ns \in Namespaces |-> RemoveFiles(cache_files[ns], IndexedFiles(ns))]
    /\ cache_index' = EmptyIndex
    /\ SaveIndex(cache_index', written)
    /\ last_stored' = [ns \in Namespaces |-> [key \in Keys(ns) |-> NoPayload]]
    /\ last_op' = "clear_cache"
    /\ ops' = ops + 1
    /\ UNCHANGED <<hits, misses, now, lookup_result, swept, last_key>>
    /\ UNCHANGED <<parVars, procVars, sysVars, extVars, conVars>>

\* clear_cache, os.remove raising at entry k of the n-th namespace: the
\* payloads visited before it are gone, the except branch logs, and the
\* index is neither reset nor saved
ClearCacheFails(n, k) ==
    /\ ops < MaxOps
    /\ k <= Len(cache_index[NamespaceOrder[n]])
    /\ cache_index[NamespaceOrder[n]][k].filename \in DOMAIN cache_files[NamespaceOrder[n]]
    /\ cache_files' = [ns \in Namespaces |->
          LET m == CHOOSE m \in 1..3 : NamespaceOrder[m] = ns
          IN  IF m < n THEN RemoveFiles(cache_files[ns], IndexedFiles(ns))
              ELSE IF m = n
              THEN RemoveFiles(cache_files[ns],
                               {cache_index[ns][j].filename : j \in 1..(k - 1)})
              ELSE cache_files[ns]]
    /\ last_stored' = [ns \in Namespaces |-> [key \in Keys(ns) |-> NoPayload]]
    /\ last_op' = "clear_cache"
    /\ ops' = ops + 1
    /\ UNCHANGED <<cache_index, index_file, hits, misses, now, lookup_result, swept, last_key>>
    /\ UNCHANGED <<parVars, procVars, sysVars, extVars, conVars>>

\* time passes
Tick ==
    /\ \E day \in ClockDays : day * DaySeconds > now /\ now' = day * DaySeconds
    /\ UNCHANGED <<cache_index, cache_files, index_file, hits, misses, lookup_result,
                   last_stored, last_op, ops, swept, last_key>>
    /\ UNCHANGED <<parVars, procVars, sysVars, extVars, conVars>>

CacheNext ==
    \/ \E ns \in Namespaces : \E key \in Keys(ns) : Lookup(ns, key)
    \/ \E ns \in Namespaces : \E key \in Keys(ns) : \E payload \in Payloads(ns) :
          \E written \in BOOLEAN : Store(ns, key, payload, written)
    \/ \E ns \in Namespaces : \E key \in Keys(ns) : \E leftover \in BOOLEAN :
          StoreFails(ns, key, leftover)
    \/ \E failing \in [Namespaces -> SUBSET FileIds] : \E written \in BOOLEAN :
          CleanOldCache([ns \in Namespaces |-> {key \in Keys(ns) : key[2] \in failing[ns]}],
                        written)
    \/ \E failing \in [Namespaces -> SUBSET FileIds] : \E written \in BOOLEAN :
          Restart([ns \in Namespaces |-> {key \in Keys(ns) : key[2] \in failing[ns]}],
                  written)
    \/ \E written \in BOOLEAN : ClearCache(written)
    \/ \E n \in 1..3 : \E k \in 1..Cardinality(FileIds) : ClearCacheFails(n, k)
    \/ Tick

\* ------------------------------------------- calls of the AudioProcessor
\* EffectSpecs of the explicit chains handed to process_audio
EqBass == Effect("eq", [low |-> Num(2)])

EqUnknownKey == Effect("eq", [presence |-> Num(3)])

CompressionUnity ==
    Effect("compression",
           [threshold |-> Num(-20), ratio |-> Num(1), attack |-> Num(20), release |-> Num(250)])

CompressionRatioOnly == Effect("compression", [ratio |-> Num(1)])

GateSquare == Effect("gate", [threshold |-> Num(0), ratio |-> Num(1)])

FilterLowpass ==
    Effect("filter", [type |-> "lowpass", cutoff_low |-> Num(500),
                      cutoff_high |-> Num(1000), resonance |-> <<7, 10>>])

StereoWide == Effect("stereo_width", [width |-> <<3, 2>>])

\* every supported kind with an empty parameter map
BareSpecs == {Effect(kind, EmptyMap) : kind \in supported_effects}

ProcEffects ==
    BareSpecs \cup {DelayEcho, DelayShort, Unsupported, EqBass, EqUnknownKey, CompressionUnity,
                    CompressionRatioOnly, GateSquare, FilterLowpass, StereoWide}

\* the explicit chains: up to two EffectSpecs
ProcChains ==
    {<< >>} \cup {<<e>> : e \in ProcEffects} \cup {<<e, f>> : e \in ProcEffects, f \in ProcEffects}

\* the instruction texts process_audio compiles itself (effects is None)
ProcTexts == {<<"long delay">>, <<"less mid">>}

ProcInit ==
    /\ proc_pc = "idle"
    /\ proc_instructions = << >>
    /\ proc_analysis = Nothing
    /\ proc_chain = << >>
    /\ proc_audio = NoBuffer
    /\ proc_rate = 1
    /\ proc_effects = Nothing
    /\ proc_result = [audio |-> NoBuffer, steps |-> << >>]

\* a call of parse_instructions
ParseInstructions ==
    /\ proc_pc = "idle"
    /\ \E instr \in Instructions : \E a \in Analyses :
          /\ proc_instructions' = instr
          /\ proc_analysis' = a
          /\ proc_chain' = parse_instructions(Text(instr), a)
    /\ proc_pc' = "parsed"
    /\ UNCHANGED <<proc_audio, proc_rate, proc_effects, proc_result>>
    /\ UNCHANGED <<parVars, cacheVars, sysVars, extVars, conVars>>

\* a call of process_audio with an explicit chain
ProcessAudio ==
    /\ proc_pc = "idle"
    /\ \E a \in AudioBuffers : \E sr \in SampleRates : \E c \in ProcChains :
          /\ proc_audio' = a
          /\ proc_rate' = sr
          /\ proc_effects' = Some(c)
          /\ proc_result' = process_audio(a, sr, << >>, Some(c))
    /\ proc_pc' = "processed"
    /\ UNCHANGED <<proc_instructions, proc_analysis, proc_chain>>
    /\ UNCHANGED <<parVars, cacheVars, sysVars, extVars, conVars>>

\* a call of process_audio with instructions only
ProcessInstructions ==
    /\ proc_pc = "idle"
    /\ \E a \in AudioBuffers : \E sr \in SampleRates : \E instr \in ProcTexts :
          /\ proc_audio' = a
          /\ proc_rate' = sr
          /\ proc_instructions' = instr
          /\ proc_result' = process_audio(a, sr, Text(instr), Nothing)
    /\ proc_effects' = Nothing
    /\ proc_pc' = "processed"
    /\ UNCHANGED <<proc_analysis, proc_chain>>
    /\ UNCHANGED <<parVars, cacheVars, sysVars, extVars, conVars>>

\* EffectSpecs that leave the signal as it is
EqFlat == Effect("eq", [low |-> Num(0), mid |-> Num(0), high |-> Num(0)])

DelayDry == Effect("delay", [time |-> <<1, 2>>, feedback |-> <<1, 2>>, mix |-> Num(0)])

DistortionDry == Effect("distortion", [drive |-> Num(2), mix |-> Num(0)])

\* the EffectSpecs of the direct calls of an effect function
CalledEffects ==
    {EqFlat, DelayDry, DistortionDry, EqBass, DelayEcho, CompressionUnity, StereoWide}

\* buffers with samples in [-1, 1]: a peak of 1.0 and a peak of 0.99
FullScale(n) == [k \in 1..n |-> IF k = 1 THEN Num(1) ELSE <<-1, 2>>]

AtLimit(n) == [k \in 1..n |-> IF k = 1 THEN <<-99, 100>> ELSE <<1, 4>>]

EffectInputs == AudioBuffers \cup UNION {{FullScale(n), AtLimit(n)} : n \in 1..MaxLen}

\* self.supported_effects[effect_type](audio_data, sample_rate, parameters)
CallEffectFunction(effect, audio, sr) ==
    IF effect.type = "distortion"
    THEN apply_distortion(audio, sr, effect.parameters)
    ELSE ApplyEffect(effect, audio, sr)

\* a direct call of one effect function
CallEffect ==
    /\ proc_pc = "idle"
    /\ \E a \in EffectInputs : \E sr \in SampleRates : \E e \in CalledEffects :
          /\ proc_audio' = a
          /\ proc_rate' = sr
          /\ proc_effects' = Some(<<e>>)
          /\ proc_result' = [audio |-> CallEffectFunction(e, a, sr).audio, steps |-> << >>]
    /\ proc_pc' = "applied"
    /\ UNCHANGED <<proc_instructions, proc_analysis, proc_chain>>
    /\ UNCHANGED <<parVars, cacheVars, sysVars, extVars, conVars>>

\* LLMProcessor.process_instructions with no provider configured, or with a
\* provider whose request or response parsing raises: the rule-based chain
LlmFallsBack ==
    /\ proc_pc = "idle"
    /\ \E instr \in Instructions : \E a \in Analyses :
          /\ proc_instructions' = instr
          /\ proc_analysis' = a
          /\ proc_chain' = rule_based_processing(Text(instr), a)
    /\ proc_pc' = "fell_back"
    /\ UNCHANGED <<proc_audio, proc_rate, proc_effects, proc_result>>
    /\ UNCHANGED <<parVars, cacheVars, sysVars, extVars, conVars>>

\* LLMProcessor.process_instructions with a provider that answers
LlmAnswers ==
    /\ proc_pc = "idle"
    /\ \E instr \in Instructions : \E a \in Analyses : \E c \in LlmChains :
          /\ proc_instructions' = instr
          /\ proc_analysis' = a
          /\ proc_chain' = c
    /\ proc_pc' = "answered"
    /\ UNCHANGED <<proc_audio, proc_rate, proc_effects, proc_result>>
    /\ UNCHANGED <<parVars, cacheVars, sysVars, extVars, conVars>>

ProcNext ==
    \/ ParseInstructions
    \/ ProcessAudio
    \/ ProcessInstructions
    \/ CallEffect
    \/ LlmFallsBack
    \/ LlmAnswers

\* ------------------------------------------------------ AudioChatSystem
MaxRequests == 2

AudioPaths == {"a.wav", "b.wav"}

\* librosa.load(audio_path, sr=None): the samples and the rate of the file
Load(audio_path) ==
    IF audio_path = "a.wav"
    THEN [y |-> Ramp(4), sr |-> 2]
    ELSE [y |-> Alternating(4), sr |-> 2]

\* hashlib.md5(open(audio_path, 'rb').read()).hexdigest(): the digest is
\* taken to be collision free on the content of the file
file_hash(audio_path) == <<"md5", Load(audio_path)>>

\* the segment arguments: none, the first second, the second second
Segments ==
    {Nothing,
     Some([start |-> Num(0), end |-> Num(1)]),
     Some([start |-> Num(1), end |-> Num(2)])}

\* cache_key = f"{file_hash}_{instructions}" and the arguments both
\* get_processed_audio(cache_key, instructions) and cache_processed_audio(
\* cache_key, instructions, processed_audio, sr) hand to _generate_cache_key:
\* effects and segment keep their default None
CacheRequest(audio_path, instructions, segment) ==
    [file_id |-> <<file_hash(audio_path), "_", instructions>>,
     instructions |-> instructions, effects |-> None, segment |-> None]

CacheKey(req) ==
    generate_cache_key(CacheRequest(req.audio_path, req.instructions, req.segment))

\* y[start_sample:end_sample] of lines 144-159
ExtractSegment(y, sr, segment) ==
    IF Truthy(segment)
    THEN Slice(y, PyInt(RMul(segment[1].start, Num(sr))),
                  Min(PyInt(RMul(segment[1].end, Num(sr))), Len(y)))
    ELSE y

\* lines 164-172 without an LLM provider: the rule-based chain
EffectsChain(y, sr, instructions) ==
    parse_instructions(Text(instructions), Some(analyze_audio(y, sr)))

LargeFileSeconds == 30

\* line 175: is_large_file = len(y) > sr * 30
IsLargeFile(y, sr) == Len(y) > sr * LargeFileSeconds

\* lines 177-187 for a buffer that is not a large file
StandardProcessing(y, sr, instructions) ==
    process_audio(y, sr, Text(instructions), Some(EffectsChain(y, sr, instructions))).audio

\* lines 190-197: the slice assignment raises when the lengths differ
CanMerge(full_audio, sr, segment, processed) ==
    Truthy(segment) =>
        CanAssign(PyInt(RMul(segment[1].start, Num(sr))),
                  Min(PyInt(RMul(segment[1].start, Num(sr))) + Len(processed), Len(full_audio)),
                  processed)

\* variant of the merge that returns the processed segment alone
MergedSegmentOnly(full_audio, sr, segment, processed) == processed

Merged(full_audio, sr, segment, processed) ==
    IF Truthy(segment)
    THEN Assign(full_audio, PyInt(RMul(segment[1].start, Num(sr))),
                Min(PyInt(RMul(segment[1].start, Num(sr))) + Len(processed), Len(full_audio)),
                processed)
    ELSE processed

NoRequest == [audio_path |-> None, instructions |-> << >>, segment |-> Nothing, use_cache |-> FALSE]

SysInit ==
    /\ sys_pc = "idle"
    /\ requests = 0
    /\ request = NoRequest
    /\ sys_audio = NoBuffer
    /\ trace = << >>
    /\ response = NoBuffer
    /\ served = << >>

Requests ==
    {[audio_path |-> p, instructions |-> i, segment |-> s, use_cache |-> u]
        : p \in AudioPaths, i \in ProcTexts, s \in Segments, u \in BOOLEAN}

CanEnter == sys_pc \in {"idle", "returned"} /\ requests < MaxRequests

Served(req, hit, stored, audio) ==
    [request |-> req, hit |-> hit, stored |-> stored, audio |-> audio]

\* lines 119-137 on a hit: the cached audio is written to the output file
\* and the call returns
RequestHit(req) ==
    /\ CanEnter
    /\ req.use_cache
    /\ LookupOutcome("audio", CacheKey(req)).hit
    /\ lookup_result' = [ns |-> "audio", key |-> CacheKey(req), hit |-> TRUE,
                         value |-> LookupOutcome("audio", CacheKey(req)).value,
                         timestamp |-> LookupOutcome("audio", CacheKey(req)).timestamp,
                         time |-> now]
    /\ hits' = hits + 1
    /\ request' = req
    /\ requests' = requests + 1
    /\ trace' = <<"lookup", "output">>
    /\ response' = lookup_result'.value.data
    /\ served' = Append(served, Served(req, TRUE, "none", response'))
    /\ sys_pc' = "returned"
    /\ UNCHANGED <<sys_audio, misses, cache_index, cache_files, index_file, now,
                   last_stored, last_op, ops, swept, last_key>>
    /\ UNCHANGED <<parVars, procVars, extVars, conVars>>

\* lines 119-128 on a miss
RequestMiss(req) ==
    /\ CanEnter
    /\ req.use_cache
    /\ ~LookupOutcome("audio", CacheKey(req)).hit
    /\ lookup_result' = [ns |-> "audio", key |-> CacheKey(req), hit |-> FALSE,
                         value |-> NoPayload, timestamp |-> 0, time |-> now]
    /\ misses' = misses + 1
    /\ request' = req
    /\ requests' = requests + 1
    /\ trace' = <<"lookup">>
    /\ sys_pc' = "missed"
    /\ UNCHANGED <<sys_audio, response, served, hits, cache_index, cache_files, index_file,
                   now, last_stored, last_op, ops, swept, last_key>>
    /\ UNCHANGED <<parVars, procVars, extVars, conVars>>

\* line 120 with use_cache false: the cache is not consulted
RequestUncached(req) ==
    /\ CanEnter
    /\ ~req.use_cache
    /\ request' = req
    /\ requests' = requests + 1
    /\ trace' = << >>
    /\ sys_pc' = "missed"
    /\ UNCHANGED <<sys_audio, response, served>>
    /\ UNCHANGED <<parVars, cacheVars, procVars, extVars, conVars>>

\* lines 140-197 for a file that is not large: load, extract the segment,
\* analyze, parse, process, merge (the merge does not raise: every effect
\* keeps the length of its input)
ProcessRequest ==
    /\ sys_pc = "missed"
    /\ ~IsLargeFile(ExtractSegment(Load(request.audio_path).y, Load(request.audio_path).sr,
                                   request.segment),
                    Load(request.audio_path).sr)
    /\ LET processed == StandardProcessing(
                            ExtractSegment(Load(request.audio_path).y,
                                           Load(request.audio_path).sr, request.segment),
                            Load(request.audio_path).sr, request.instructions)
       IN  /\ CanMerge(Load(request.audio_path).y, Load(request.audio_path).sr,
                       request.segment, processed)
           /\ sys_audio' = Merged(Load(request.audio_path).y, Load(request.audio_path).sr,
                                  request.segment, processed)
    /\ trace' = Append(trace, "process")
    /\ sys_pc' = "processed"
    /\ UNCHANGED <<requests, request, response, served>>
    /\ UNCHANGED <<parVars, cacheVars, procVars, extVars, conVars>>

\* variant of the store that files the result under the key of another source
CacheResultOtherKey(written) ==
    /\ sys_pc = "processed"
    /\ request.use_cache
    /\ cache_files' = [cache_files EXCEPT !["audio"] =
           WriteFile(@, Filename("audio", <<"other">>),
                     Encode("audio", [data |-> sys_audio,
                                      samplerate |-> Load(request.audio_path).sr]))]
    /\ cache_index' = [cache_index EXCEPT !["audio"] =
           PutEntry(@, [key |-> <<"other">>,
                        filename |-> Filename("audio", <<"other">>), timestamp |-> now])]
    /\ SaveIndex(cache_index', written)
    /\ trace' = Append(trace, "store")
    /\ sys_pc' = "stored"
    /\ UNCHANGED <<requests, request, sys_audio, response, served>>
    /\ UNCHANGED <<hits, misses, now, lookup_result, last_stored, last_op, ops, swept, last_key>>
    /\ UNCHANGED <<parVars, procVars, extVars, conVars>>

\* lines 200-206, the payload write succeeding; written: whether the index
\* file could be rewritten
CacheResult(written) ==
    /\ sys_pc = "processed"
    /\ request.use_cache
    /\ cache_files' = [cache_files EXCEPT !["audio"] =
           WriteFile(@, Filename("audio", CacheKey(request)),
                     Encode("audio", [data |-> sys_audio,
                                      samplerate |-> Load(request.audio_path).sr]))]
    /\ cache_index' = [cache_index EXCEPT !["audio"] =
           PutEntry(@, [key |-> CacheKey(request),
                        filename |-> Filename("audio", CacheKey(request)), timestamp |-> now])]
    /\ SaveIndex(cache_index', written)
    /\ trace' = Append(trace, "store")
    /\ sys_pc' = "stored"
    /\ UNCHANGED <<requests, request, sys_audio, response, served>>
    /\ UNCHANGED <<hits, misses, now, lookup_result, last_stored, last_op, ops, swept, last_key>>
    /\ UNCHANGED <<parVars, procVars, extVars, conVars>>

\* lines 200-206, the payload write raising inside cache_processed_audio,
\* which logs and returns; leftover: whether a truncated file is left behind
CacheResultFails(leftover) ==
    /\ sys_pc = "processed"
    /\ request.use_cache
    /\ cache_files' = IF leftover
                      THEN [cache_files EXCEPT !["audio"] =
                               WriteFile(@, Filename("audio", CacheKey(request)), Corrupt)]
                      ELSE cache_files
    /\ trace' = Append(trace, "store_failed")
    /\ sys_pc' = "stored"
    /\ UNCHANGED <<requests, request, sys_audio, response, served>>
    /\ UNCHANGED <<cache_index, index_file, hits, misses, now, lookup_result, last_stored,
                   last_op, ops, swept, last_key>>
    /\ UNCHANGED <<parVars, procVars, extVars, conVars>>

\* line 200 with use_cache false
CacheSkipped ==
    /\ sys_pc = "processed"
    /\ ~request.use_cache
    /\ sys_pc' = "stored"
    /\ UNCHANGED <<requests, request, sys_audio, trace, response, served>>
    /\ UNCHANGED <<parVars, cacheVars, procVars, extVars, conVars>>

StoredAs(steps) ==
    IF \E k \in 1..Len(steps) : steps[k] = "store" THEN "ok"
    ELSE IF \E k \in 1..Len(steps) : steps[k] = "store_failed" THEN "failed"
    ELSE "none"

\* lines 208-216: the processed audio is written to the output file and the
\* call returns
WriteOutput ==
    /\ sys_pc = "stored"
    /\ response' = sys_audio
    /\ trace' = Append(trace, "output")
    /\ served' = Append(served, Served(request, FALSE, StoredAs(trace), sys_audio))
    /\ sys_pc' = "returned"
    /\ UNCHANGED <<requests, request, sys_audio>>
    /\ UNCHANGED <<parVars, cacheVars, procVars, extVars, conVars>>

OrchNext ==
    \/ \E req \in Requests : RequestHit(req)
    \/ \E req \in Requests : RequestMiss(req)
    \/ \E req \in Requests : RequestUncached(req)
    \/ ProcessRequest
    \/ \E written \in BOOLEAN : CacheResult(written)
    \/ \E leftover \in BOOLEAN : CacheResultFails(leftover)
    \/ CacheSkipped
    \/ WriteOutput

\* ---------------------------------------------------- ExtensionsManager
\* self.extensions after _load_builtin_extensions: id -> premium
extensions ==
    [essentia |-> TRUE, transformers |-> TRUE, spleeter |-> TRUE,
     pedalboard |-> FALSE, madmom |-> TRUE]

UserIds == {"u1", "u2"}

\* the extension_id arguments: a premium one, the free one, an unknown one
ExtensionIds == {"essentia", "pedalboard", "nonexistent"}

NoUsers == [u \in {} |-> {}]

ExtInit ==
    /\ user_extensions = NoUsers
    /\ user_file = NoUsers
    /\ ext_calls = << >>

\* is_extension_enabled(user_id, extension_id)
is_extension_enabled(user_id, extension_id) ==
    IF user_id \notin DOMAIN user_extensions THEN FALSE
    ELSE IF extension_id \notin DOMAIN extensions THEN FALSE
    ELSE IF ~extensions[extension_id] THEN TRUE
    ELSE extension_id \in user_extensions[user_id]

ExtCall(op, user_id, extension_id, result) ==
    [op |-> op, user_id |-> user_id, extension_id |-> extension_id, result |-> result]

CanCall == Len(ext_calls) < MaxOps

\* save_user_extensions(): a failing write is caught and logged
SaveUserExtensions(users, written) == user_file' = IF written THEN users ELSE user_file

\* self.user_extensions[user_id] = value
SetUser(users, user_id, value) ==
    [u \in (DOMAIN users) \cup {user_id} |-> IF u = user_id THEN value ELSE users[u]]

\* enable_extension(user_id, extension_id) for an extension that exists
EnableExtension(user_id, extension_id, written) ==
    /\ CanCall
    /\ extension_id \in DOMAIN extensions
    /\ user_extensions' =
           SetUser(user_extensions, user_id,
                   (IF user_id \in DOMAIN user_extensions
                    THEN user_extensions[user_id] ELSE {}) \cup {extension_id})
    /\ SaveUserExtensions(user_extensions', written)
    /\ ext_calls' = Append(ext_calls, ExtCall("enable", user_id, extension_id, TRUE))
    /\ UNCHANGED <<parVars, cacheVars, procVars, sysVars, conVars>>

\* enable_extension(user_id, extension_id) for an extension that is not found
EnableUnknown(user_id, extension_id) ==
    /\ CanCall
    /\ extension_id \notin DOMAIN extensions
    /\ ext_calls' = Append(ext_calls, ExtCall("enable", user_id, extension_id, FALSE))
    /\ UNCHANGED <<user_extensions, user_file>>
    /\ UNCHANGED <<parVars, cacheVars, procVars, sysVars, conVars>>

\* disable_extension(user_id, extension_id) where the id is in the user's set
DisableExtension(user_id, extension_id, written) ==
    /\ CanCall
    /\ user_id \in DOMAIN user_extensions
    /\ extension_id \in user_extensions[user_id]
    /\ user_extensions' =
           [user_extensions EXCEPT ![user_id] = @ \ {extension_id}]
    /\ SaveUserExtensions(user_extensions', written)
    /\ ext_calls' = Append(ext_calls, ExtCall("disable", user_id, extension_id, TRUE))
    /\ UNCHANGED <<parVars, cacheVars, procVars, sysVars, conVars>>

\* disable_extension(user_id, extension_id) for an unknown user or an id
\* that is not in the user's set
DisableNothing(user_id, extension_id) ==
    /\ CanCall
    /\ user_id \in DOMAIN user_extensions => extension_id \notin user_extensions[user_id]
    /\ ext_calls' = Append(ext_calls, ExtCall("disable", user_id, extension_id, FALSE))
    /\ UNCHANGED <<user_extensions, user_file>>
    /\ UNCHANGED <<parVars, cacheVars, procVars, sysVars, conVars>>

\* a new process: __init__ runs load_user_extensions(); loaded: whether the
\* file could be read (it is absent, or the read raising is caught)
ExtRestart(loaded) ==
    /\ CanCall
    /\ user_extensions' = IF loaded THEN user_file ELSE NoUsers
    /\ ext_calls' = Append(ext_calls, ExtCall("restart", "", "", TRUE))
    /\ UNCHANGED user_file
    /\ UNCHANGED <<parVars, cacheVars, procVars, sysVars, conVars>>

ExtNext ==
    \/ \E u \in UserIds : \E e \in ExtensionIds : \E written \in BOOLEAN :
          EnableExtension(u, e, written)
    \/ \E u \in UserIds : \E e \in ExtensionIds : EnableUnknown(u, e)
    \/ \E u \in UserIds : \E e \in ExtensionIds : \E written \in BOOLEAN :
          DisableExtension(u, e, written)
    \/ \E u \in UserIds : \E e \in ExtensionIds : DisableNothing(u, e)
    \/ \E loaded \in BOOLEAN : ExtRestart(loaded)

\* ------------------------------------------------- concurrent stores
Threads == {1, 2}

NoCall == [key |-> None, payload |-> NoPayload]

\* cache_index.json as bytes: whole (the bytes are one JSON document), text
\* (the index the document holds), size (its length, counted in index
\* records: a document with more records is longer)
EmptyFile == [whole |-> FALSE, text |-> << >>, size |-> 0]

ConInit ==
    /\ st_pc = [t \in Threads |-> "idle"]
    /\ st_call = [t \in Threads |-> NoCall]
    /\ st_buffer = [t \in Threads |-> << >>]
    /\ mem_index = << >>
    /\ wav_files = NoFiles
    /\ json_file = EmptyFile
    /\ write_order = << >>

\* flushing text at offset 0 of a file opened with 'w' by this thread: bytes
\* another thread wrote beyond the end of text stay in the file
FlushAtStart(file, text) ==
    IF file.size <= Len(text)
    THEN [whole |-> TRUE, text |-> text, size |-> Len(text)]
    ELSE [whole |-> FALSE, text |-> << >>, size |-> file.size]

\* _load_cache_index on the bytes: a document that does not parse gives the
\* empty index
LoadedIndex(file) == IF file.whole THEN file.text ELSE << >>

Step(t, from, to) == st_pc[t] = from /\ st_pc' = [st_pc EXCEPT ![t] = to]

\* a thread enters cache_processed_audio (lines 165-187)
CallStore(t, key, payload) ==
    /\ Step(t, "idle", "called")
    /\ st_call' = [st_call EXCEPT ![t] = [key |-> key, payload |-> payload]]
    /\ UNCHANGED <<st_buffer, mem_index, wav_files, json_file, write_order>>
    /\ UNCHANGED <<parVars, cacheVars, procVars, sysVars, extVars>>

\* line 195, sf.write(cache_path, audio_data, sample_rate), as one step: the
\* file reads back as the data of the call whose write finished last
WritePayload(t) ==
    /\ Step(t, "called", "written")
    /\ wav_files' = WriteFile(wav_files, Filename("audio", st_call[t].key),
                              Encode("audio", st_call[t].payload))
    /\ write_order' = Append(write_order, t)
    /\ UNCHANGED <<st_call, st_buffer, mem_index, json_file>>
    /\ UNCHANGED <<parVars, cacheVars, procVars, sysVars, extVars>>

\* lines 198-205: self.cache_index["audio"][cache_key] = {...}
UpdateIndex(t) ==
    /\ Step(t, "written", "indexed")
    /\ mem_index' = PutEntry(mem_index, [key |-> st_call[t].key,
                                         filename |-> Filename("audio", st_call[t].key),
                                         timestamp |-> 0])
    /\ UNCHANGED <<st_call, st_buffer, wav_files, json_file, write_order>>
    /\ UNCHANGED <<parVars, cacheVars, procVars, sysVars, extVars>>

\* _save_cache_index, line 69: open(index_path, 'w') truncates the file
OpenIndexFile(t) ==
    /\ Step(t, "indexed", "opened")
    /\ json_file' = EmptyFile
    /\ UNCHANGED <<st_call, st_buffer, mem_index, wav_files, write_order>>
    /\ UNCHANGED <<parVars, cacheVars, procVars, sysVars, extVars>>

\* _save_cache_index, line 70: json.dump(self.cache_index, f) serialises the
\* index as it is now into the buffer of f
DumpIndex(t) ==
    /\ Step(t, "opened", "dumped")
    /\ st_buffer' = [st_buffer EXCEPT ![t] = mem_index]
    /\ UNCHANGED <<st_call, mem_index, wav_files, json_file, write_order>>
    /\ UNCHANGED <<parVars, cacheVars, procVars, sysVars, extVars>>

\* _save_cache_index, the end of the with block: f is closed, which writes
\* its buffer at the start of the file
CloseIndexFile(t) ==
    /\ Step(t, "dumped", "done")
    /\ json_file' = FlushAtStart(json_file, st_buffer[t])
    /\ UNCHANGED <<st_call, st_buffer, mem_index, wav_files, write_order>>
    /\ UNCHANGED <<parVars, cacheVars, procVars, sysVars, extVars>>

ConNext ==
    \/ \E t \in Threads : \E key \in Keys("audio") : \E payload \in Payloads("audio") :
          CallStore(t, key, payload)
    \/ \E t \in Threads : WritePayload(t)
    \/ \E t \in Threads : UpdateIndex(t)
    \/ \E t \in Threads : OpenIndexFile(t)
    \/ \E t \in Threads : DumpIndex(t)
    \/ \E t \in Threads : CloseIndexFile(t)

vars == <<parVars, cacheVars, procVars, sysVars, extVars, conVars>>

Init == ParInit /\ CacheInit /\ ProcInit /\ SysInit /\ ExtInit /\ ConInit

ProcSpec == Init /\ [][ProcNext]_vars

Spec == Init /\ [][ParNext]_vars

\* every future of the current call has resolved
AllResolved == \A i \in 1..Len(future_state) : future_state[i] # "pending"

\* the scheduling the liveness of a call rests on:
\*  - no future stays pending for ever (WorkerFails(i) is enabled exactly
\*    while future i is pending, so the condition is met as well when the
\*    future resolves with a result);
\*  - the calling thread runs on once as_completed is exhausted: weak
\*    fairness of SortAndMerge, which is enabled exactly when the call is
\*    collecting with every future resolved, and leaves that state
LiveSpec ==
    /\ Init
    /\ [][ParNext]_vars
    /\ WF_vars(\E i \in 0..(MaxLen - 1) : i < Len(future_state) /\ WorkerFails(i))
    /\ []<>~(pc = "collecting" /\ AllResolved)

CacheSpec == Init /\ [][CacheNext]_vars

OrchSpec == Init /\ [][OrchNext]_vars

ExtSpec == Init /\ [][ExtNext]_vars

ConSpec == Init /\ [][ConNext]_vars

\* ================================================================ claims
Chunked == Len(positions) > 0

Finished == pc \in {"returned", "raised"}

\* what process_func returns for chunk i (0-based)
ResultOf(i) == CallProcessFunc(process_func, chunks[i + 1], sample_rate, effects).value

\* the entry collected for chunk i (0-based), once its future has resolved
CollectedOf(i) ==
    LET k == CHOOSE k \in 1..Len(processed_chunks) : processed_chunks[k][1] = i
    IN  processed_chunks[k][2]

AllSameLength ==
    \A i \in 0..(Len(chunks) - 1) : Len(CollectedOf(i)) = Len(chunks[i + 1])

\* C1: in the chunked path, when every chunk result has the length of its
\* source slice, the call returns and the merged output has exactly the
\* length of the source buffer.
C1_MergedLengthEqualsSource ==
    (Chunked /\ Finished /\ AllSameLength)
        => (pc = "returned" /\ Len(merged_audio) = Len(audio_data))

C1_Witness ==
    /\ Chunked /\ pc = "returned" /\ AllSameLength
    /\ Len(chunks) >= 3 /\ overlap_size >= 1
    /\ \E i \in 1..Len(future_state) : future_state[i] = "result"
    /\ Len(merged_audio) = MaxLen

\* C2: a failed chunk is collected as its unprocessed source slice, every
\* other chunk as its processed result; the call is never raised because of
\* a chunk failure (it raises only when a successful result has the wrong
\* shape for the merge), so with any subset of failures it still returns.
C2_FailedChunkFallsBack ==
    /\ \A k \in 1..Len(processed_chunks) :
          LET i == processed_chunks[k][1]
          IN  /\ future_state[i + 1] = "exception" => processed_chunks[k][2] = chunks[i + 1]
              /\ future_state[i + 1] = "result" => processed_chunks[k][2] = ResultOf(i)
    /\ (Chunked /\ pc = "raised") =>
          \E i \in 0..(Len(chunks) - 1) :
              /\ future_state[i + 1] = "result"
              /\ Len(ResultOf(i)) # Len(chunks[i + 1])
    /\ (Chunked /\ Finished) => \A i \in 1..Len(future_state) : future_state[i] # "pending"

C2_Witness ==
    /\ Chunked /\ pc = "returned"
    /\ \E i \in 1..Len(future_state) : future_state[i] = "exception"
    /\ \E i \in 1..Len(future_state) :
          future_state[i] = "result" /\ ResultOf(i - 1) # chunks[i]

\* the list of chunks by original index that the outcomes of the futures determine
ByIndex ==
    [i \in 1..Len(chunks) |->
        IF future_state[i] = "exception" THEN chunks[i] ELSE ResultOf(i - 1)]

\* C3: the merged output depends only on the per-chunk outcomes, placed by
\* original chunk index; it is the same for every completion order.
C3_MergeIgnoresCompletionOrder ==
    (Chunked /\ pc = "returned")
        => merged_audio = merge_chunks_with_crossfade(ByIndex, positions, overlap_size).out

C3_Witness ==
    /\ Chunked /\ pc = "returned"
    /\ Len(processed_chunks) >= 3
    /\ processed_chunks[1][1] = Len(processed_chunks) - 1
    /\ processed_chunks[1][2] # processed_chunks[2][2]

\* C4: chunk i spans [i*s, min(i*s + chunk_size, n)) with s = chunk_size -
\* overlap_size; the last chunk is the first whose end is n; the chunks cover
\* the buffer; consecutive chunks overlap by exactly overlap_size; 45 s at
\* 44.1 kHz with 10 s chunks and 0.5 s overlap gives exactly 5 chunks.
C4_ChunkBoundaries ==
    /\ Chunked =>
          LET n == Len(audio_data)
              s == chunk_size - overlap_size
          IN  /\ Len(chunks) = Len(positions)
              /\ \A i \in 0..(Len(positions) - 1) :
                    /\ positions[i + 1] = <<i * s, Min(i * s + chunk_size, n)>>
                    /\ chunks[i + 1] = SubSeq(audio_data, i * s + 1, Min(i * s + chunk_size, n))
                    /\ (positions[i + 1][2] = n) <=> (i = Len(positions) - 1)
                    /\ i >= 1 => positions[i][2] - positions[i + 1][1] = overlap_size
              /\ \A k \in 0..(n - 1) :
                    \E i \in 1..Len(positions) : positions[i][1] <= k /\ k < positions[i][2]
    /\ LET rate == 44100
           p    == SplitPositions(45 * rate, Trunc(RMul(<<10, 1>>, <<rate, 1>>)),
                                  Trunc(RMul(<<1, 2>>, <<rate, 1>>)))
       IN  /\ Len(p) = 5
           /\ p[5] = <<4 * 418950, 45 * rate>>

C4_Witness ==
    /\ Chunked
    /\ Len(positions) >= 3
    /\ overlap_size >= 1
    /\ positions[Len(positions)][2] - positions[Len(positions)][1] < chunk_size

\* C5 (as claimed): in process_audio_with_effects_parallel every chunk that
\* enters the merge is the full effect chain applied, in order, to its source
\* slice (no effect execution fails in this model, so no fallback is due).
C5_ChunksCarryTheEffectChain ==
    (Chunked /\ process_func = "apply_effects_to_chunk")
        => \A k \in 1..Len(processed_chunks) :
              processed_chunks[k][2]
                  = process_audio(chunks[processed_chunks[k][1] + 1], sample_rate, << >>, Some(effects)).audio

\* C6 (as claimed): on a buffer no longer than one chunk, with overlap 0, the
\* chunked entry point returns exactly what the direct path returns.
C6_ChunkedEntryEqualsDirectPath ==
    (Finished /\ ~Chunked /\ process_func = "apply_effects_to_chunk" /\ overlap_size = 0)
        => (pc = "returned" /\ merged_audio = process_audio(audio_data, sample_rate, << >>, Some(effects)).audio)

\* C7 (as claimed): in every namespace, a lookup that follows a store of the
\* same key completed without I/O failure (with only stores and lookups of
\* other keys in between) returns exactly the stored payload.
C7_LookupReturnsStoredPayload ==
    \A ns \in Namespaces : \A key \in Keys(ns) :
        (last_stored[ns][key] # NoPayload)
            => /\ LookupOutcome(ns, key).hit
               /\ LookupOutcome(ns, key).value = last_stored[ns][key]

\* C8 (as claimed): once clear_cache() has completed, every lookup returns
\* none and every namespace has no entry.
C8_ClearEmptiesTheCache ==
    (last_op = "clear_cache")
        => \A ns \in Namespaces :
              /\ Len(cache_index[ns]) = 0
              /\ \A key \in Keys(ns) : ~LookupOutcome(ns, key).hit

\* C9 (as claimed): a lookup never returns the payload of an entry older
\* than the TTL, whether or not the sweep has run since it expired.
C9_NoHitOnExpiredEntry ==
    lookup_result.hit
        => lookup_result.time - lookup_result.timestamp <= max_age_days * DaySeconds

\* a new CacheManager object is constructed over the cache directory
ConstructionStep == last_op' = "init" /\ ops' = ops + 1

ClearStep == last_op' = "clear_cache" /\ ops' = ops + 1

\* C10 (as claimed): the hit and miss counters never decrease, except that
\* clear_cache() resets both to zero.
C10_CountersResetOnlyByClear ==
    [][/\ ClearStep => (hits' = 0 /\ misses' = 0)
       /\ (~ClearStep /\ ~ConstructionStep) => (hits' >= hits /\ misses' >= misses)]_vars

\* C10 (amended): during the life of a CacheManager object the hit and miss
\* counters never decrease under lookups, stores, sweeps and clears;
\* clear_cache() leaves both as they are; only a lookup changes them, adding
\* one to exactly one of the two; they are zero only at construction.
C10_CountersNeverReset ==
    [][IF ConstructionStep THEN hits' = 0 /\ misses' = 0
       ELSE /\ hits' >= hits /\ misses' >= misses
            /\ ClearStep => (hits' = hits /\ misses' = misses)
            /\ (hits' + misses' # hits + misses)
                  => (last_op' = "lookup" /\ hits' + misses' = hits + misses + 1)]_vars

C10_Witness == last_op = "clear_cache" /\ hits >= 1 /\ Len(cache_index["audio"]) = 0

\* ------------------------------------------------------------ C11
\* a sweep (on the live object or at construction) was the last operation
AfterSweep == last_op \in {"clean_old_cache", "init"} /\ ops > 0

ExpiredAtSweep(entry) == swept.time - entry.timestamp > max_age_days * DaySeconds

SweptEntries(ns) == {swept.index[ns][k] : k \in 1..Len(swept.index[ns])}

IndexEntries(ns) == {cache_index[ns][k] : k \in 1..Len(cache_index[ns])}

\* C11 (as claimed): after the sweep no namespace holds an entry older than
\* the TTL, every entry not older than the TTL is still present, no evicted
\* record leaves its payload behind, and an expired entry whose payload was
\* already missing is evicted.
C11_SweepEvictsEveryExpiredEntry ==
    AfterSweep =>
        \A ns \in Namespaces :
            /\ \A e \in IndexEntries(ns) : ~ExpiredAtSweep(e)
            /\ \A e \in SweptEntries(ns) :
                  /\ ~ExpiredAtSweep(e) => e \in IndexEntries(ns)
                  /\ e \notin IndexEntries(ns) => e.filename \notin DOMAIN cache_files[ns]

\* C11 (amended): after the sweep every entry not older than the TTL is
\* still present, in its place, with its payload untouched; an entry older
\* than the TTL remains only when the removal of its existing payload
\* failed, and then the payload is still there too; the payload of every
\* evicted entry is gone (it is removed before the record is); an expired
\* entry whose payload was already missing is evicted; no other payload
\* file is touched.
C11_SweepEvictsUnlessRemoveFails ==
    AfterSweep =>
        \A ns \in Namespaces :
            /\ IndexEntries(ns) \subseteq SweptEntries(ns)
            /\ LET K(e) == e \in IndexEntries(ns)
               IN  cache_index[ns] = SelectSeq(swept.index[ns], K)
            /\ \A e \in SweptEntries(ns) :
                  /\ ~ExpiredAtSweep(e) => e \in IndexEntries(ns)
                  /\ (ExpiredAtSweep(e) /\ e \in IndexEntries(ns))
                        => (e.filename \in swept.files[ns]
                              /\ e.filename \in DOMAIN cache_files[ns])
                  /\ e \notin IndexEntries(ns) => e.filename \notin DOMAIN cache_files[ns]
                  /\ (ExpiredAtSweep(e) /\ e.filename \notin swept.files[ns])
                        => e \notin IndexEntries(ns)
            /\ DOMAIN cache_files[ns]
                  = swept.files[ns]
                      \ {e.filename : e \in SweptEntries(ns) \ IndexEntries(ns)}

\* a sweep that evicted an entry with its payload, evicted an entry whose
\* payload was already missing or kept an entry not older than the TTL
C11_Witness ==
    /\ AfterSweep
    /\ \E ns \in Namespaces : \E e \in SweptEntries(ns) :
          /\ ExpiredAtSweep(e) /\ e \notin IndexEntries(ns)
          /\ e.filename \in swept.files[ns]
    /\ \E ns \in Namespaces : \E e \in SweptEntries(ns) :
          ~ExpiredAtSweep(e) /\ e \in IndexEntries(ns)

\* a sweep that evicted an expired entry whose payload file was missing
C11_WitnessMissingPayload ==
    /\ AfterSweep
    /\ \E ns \in Namespaces : \E e \in SweptEntries(ns) :
          /\ ExpiredAtSweep(e) /\ e \notin IndexEntries(ns)
          /\ e.filename \notin swept.files[ns]

\* ------------------------------------------------------------ C12
\* the payload of an indexed key cannot be read: the file is missing or unreadable
PayloadUnreadable(ns, key) ==
    /\ InIndex(cache_index[ns], key)
    /\ LET fn == EntryOf(cache_index[ns], key).filename
       IN  fn \notin DOMAIN cache_files[ns] \/ cache_files[ns][fn].fmt = "corrupt"

LookupStep == last_op' = "lookup" /\ ops' = ops + 1

FailedStoreStep == last_op' = "store_failed" /\ ops' = ops + 1

\* a lookup whose payload is missing or unreadable returns none, counts as
\* exactly one miss and changes nothing else
UnreadableLookupIsOneMiss ==
    (LookupStep /\ PayloadUnreadable(lookup_result'.ns, lookup_result'.key))
        => /\ ~lookup_result'.hit
           /\ lookup_result'.value = NoPayload
           /\ misses' = misses + 1
           /\ hits' = hits
           /\ UNCHANGED <<cache_index, cache_files, index_file>>

\* C12 (as claimed): a lookup whose payload is missing or unreadable returns
\* none and counts as one miss; after a store whose payload write failed the
\* index has no record for that key.
C12_FailedStoreLeavesNoRecord ==
    [][/\ UnreadableLookupIsOneMiss
       /\ FailedStoreStep => ~InIndex(cache_index'[last_key'.ns], last_key'.key)]_vars

\* C12 (amended): a lookup whose payload is missing or unreadable returns
\* none and counts as one miss; a store whose payload write failed leaves
\* the index (in memory and on disk) exactly as it was: it adds no record,
\* and a record that an earlier store left for the key stays.
C12_FailedStoreLeavesIndexUnchanged ==
    [][/\ UnreadableLookupIsOneMiss
       /\ FailedStoreStep => UNCHANGED <<cache_index, index_file, hits, misses>>]_vars

\* a store failed over an existing record and left an unreadable payload,
\* and the lookup of the key that followed was a miss
C12_Witness ==
    /\ last_op = "lookup"
    /\ lookup_result.ns = last_key.ns /\ lookup_result.key = last_key.key
    /\ PayloadUnreadable(lookup_result.ns, lookup_result.key)
    /\ last_stored[last_key.ns][last_key.key] = NoPayload
    /\ ~lookup_result.hit /\ misses = 1

\* ------------------------------------------------------------ C15
\* the precedence list of the effect kinds
Precedence ==
    <<"eq", "compression", "reverb", "noise_reduction", "delay", "pitch_shift",
      "time_stretch", "stereo_width", "limiter", "distortion", "filter">>

Rank(order, kind) == CHOOSE k \in 1..Len(order) : order[k] = kind

\* no kind of the chain stands before a kind that precedes it in the order
InOrder(processing_chain, order) ==
    \A i \in 1..Len(processing_chain) : \A j \in 1..Len(processing_chain) :
        i < j => /\ processing_chain[i].type \in {order[k] : k \in 1..Len(order)}
                 /\ processing_chain[j].type \in {order[k] : k \in 1..Len(order)}
                 /\ ~(Rank(order, processing_chain[j].type) < Rank(order, processing_chain[i].type))

\* the chain the topic blocks build for the instructions of the call
ScannedChain == Scan(Lower(Text(proc_instructions)), Topics(Lower(Text(proc_instructions))))

\* the audio_analysis of the call is a dict with at least one key
AnalysisNonEmpty == Len(proc_analysis) = 1 /\ DOMAIN proc_analysis[1] # {}

\* the call took the fallback: no topic block appended an effect and the
\* analysis is a non-empty dict
TookFallback == ScannedChain = << >> /\ AnalysisNonEmpty

C16_ChainNonEmptyWithAnalysis ==
    (proc_pc = "parsed" /\ Len(proc_analysis) = 1) => Len(proc_chain) >= 1

\* C16 (amended): whenever the analysis supplied is a non-empty dict the
\* returned chain is non-empty, for every instruction text; an empty dict is
\* treated as no analysis, and the chain is then what the topic blocks built.
C16_ChainNonEmptyWithNonEmptyAnalysis ==
    proc_pc = "parsed" =>
        /\ AnalysisNonEmpty => Len(proc_chain) >= 1
        /\ ~AnalysisNonEmpty => proc_chain = ScannedChain

\* the text names the EQ topic without a band, the analysis is the error
\* dict, and the chain is the default enhancement
C16_Witness ==
    /\ proc_pc = "parsed"
    /\ proc_instructions = <<"adjust the tone">>
    /\ proc_analysis = Some(AnalysisError)
    /\ Len(proc_chain) = 1 /\ proc_chain[1].type = "eq"

\* ------------------------------------------------------------ C17
Kinds(processing_chain) == [k \in 1..Len(processing_chain) |-> processing_chain[k].type]

\* the audio of the analysis is quiet: peak < 0.1
Quiet(analysis) ==
    "peak_level" \in DOMAIN analysis /\ RLess(analysis["peak_level"], <<1, 10>>)

\* the noise floor of the analysis exceeds 0.01
Noisy(analysis) ==
    "noise_floor" \in DOMAIN analysis /\ RLess(<<1, 100>>, analysis["noise_floor"])

\* the limiter boost and the noise reduction pass of the fallback policy
PolicyFixes(analysis) ==
    (IF Quiet(analysis) THEN <<"limiter">> ELSE << >>)
        \o (IF Noisy(analysis) THEN <<"noise_reduction">> ELSE << >>)

\* the default eq of the fallback policy: low +1 dB and high +1 dB
IsDefaultEq(effect) ==
    effect.type = "eq" /\ effect.parameters = [low |-> Num(1), high |-> Num(1)]

BassAndRoom == <<"make the bass louder", "add a small room reverb">>

Positions(processing_chain, kind) ==
    {k \in 1..Len(processing_chain) : processing_chain[k].type = kind}

\* C18: "make the bass louder and add a small room reverb" compiles to a
\* chain with exactly one eq spec, whose low is > 0, and exactly one reverb
\* spec, whose room_size is <= 0.4; and no compiled chain has two specs of
\* the same effect kind.
C18_BassAndRoomReverb ==
    proc_pc = "parsed" =>
        /\ \A kind \in supported_effects : Cardinality(Positions(proc_chain, kind)) <= 1
        /\ proc_instructions = BassAndRoom =>
              /\ Cardinality(Positions(proc_chain, "eq")) = 1
              /\ \A k \in Positions(proc_chain, "eq") :
                    /\ "low" \in DOMAIN proc_chain[k].parameters
                    /\ RLess(Num(0), proc_chain[k].parameters["low"])
              /\ Cardinality(Positions(proc_chain, "reverb")) = 1
              /\ \A k \in Positions(proc_chain, "reverb") :
                    /\ "room_size" \in DOMAIN proc_chain[k].parameters
                    /\ ~RLess(<<2, 5>>, proc_chain[k].parameters["room_size"])

\* the scenario compiled with an analysis at hand: eq, reverb and (for
\* "louder") a limiter
C18_Witness ==
    /\ proc_pc = "parsed"
    /\ proc_instructions = BassAndRoom
    /\ AnalysisNonEmpty
    /\ Kinds(proc_chain) = <<"eq", "reverb", "limiter">>

\* ------------------------------------------------------------ C19
\* the chain of a process_audio call that was given one
GivenChain == proc_effects[1]

ExplicitCall == proc_pc = "processed" /\ Len(proc_effects) = 1

\* the effect functions of this model have an exact value for the effect
HasExactValue(effect) ==
    \/ effect.type \notin supported_effects
    \/ effect.type \in {"delay", "eq", "filter", "stereo_width", "gate"}
    \/ effect.type = "compression" /\ Get(effect.parameters, "ratio", Num(4)) \in {Num(0), Num(1)}

\* the buffer after the effects k.. of the chain when every supported effect
\* is applied in turn, a failing one returning its input
RECURSIVE EveryEffectApplied(_, _, _, _)
EveryEffectApplied(processing_chain, k, audio, rate) ==
    IF k > Len(processing_chain) THEN audio
    ELSE EveryEffectApplied(processing_chain, k + 1,
             IF processing_chain[k].type \in supported_effects
             THEN ApplyEffect(processing_chain[k], audio, rate).audio
             ELSE audio,
             rate)

\* some effect k.. of the chain fails internally on the buffer it is given
RECURSIVE SomeEffectFails(_, _, _, _)
SomeEffectFails(processing_chain, k, audio, rate) ==
    /\ k <= Len(processing_chain)
    /\ IF processing_chain[k].type \in supported_effects
       THEN \/ ApplyEffect(processing_chain[k], audio, rate).failed
            \/ SomeEffectFails(processing_chain, k + 1,
                                ApplyEffect(processing_chain[k], audio, rate).audio, rate)
       ELSE SomeEffectFails(processing_chain, k + 1, audio, rate)

\* C19 (as claimed): when an effect of the chain fails internally during
\* process_audio it returns its input unchanged and every later effect is
\* still applied: the result is the buffer with every effect applied in
\* turn, never the original buffer with the earlier outputs discarded.
C19_FailedEffectKeepsEarlierOutputs ==
    (/\ ExplicitCall
     /\ \A k \in 1..Len(GivenChain) : HasExactValue(GivenChain[k])
     /\ SomeEffectFails(GivenChain, 1, proc_audio, proc_rate))
        => proc_result.audio = EveryEffectApplied(GivenChain, 1, proc_audio, proc_rate)

\* ------------------------------------------------------------ C20
\* C20 (as claimed): an explicit EffectSpec of a supported kind whose
\* parameter map omits keys (or carries unknown ones) is executed with the
\* defaults and the remaining effects are applied: every supported effect
\* of the chain yields its step, and the result is never the error result
\* that returns the unprocessed audio.
C20_MissingKeysUseDefaults ==
    ExplicitCall =>
        /\ proc_result.steps # ErrorSteps
        /\ Len(proc_result.steps)
              = Cardinality({k \in 1..Len(GivenChain) : GivenChain[k].type \in supported_effects})

\* ------------------------------------------------------------ C13
\* the request that stored the entry request j was served from: the last
\* one before j that stored, without failure, for the same source and text
StorerOf(j) ==
    CHOOSE i \in 1..(j - 1) :
        /\ served[i].stored = "ok"
        /\ served[i].request.audio_path = served[j].request.audio_path
        /\ served[i].request.instructions = served[j].request.instructions
        /\ \A k \in (i + 1)..(j - 1) :
              ~(/\ served[k].stored = "ok"
                /\ served[k].request.audio_path = served[j].request.audio_path
                /\ served[k].request.instructions = served[j].request.instructions)

\* C13 (as claimed): requests on the same source with the same instructions
\* but different segment bounds never share a cache entry: a request served
\* from the cache was stored by a request with the same segment.
C13_SegmentsNeverShareEntry ==
    \A j \in 1..Len(served) :
        served[j].hit => served[StorerOf(j)].request.segment = served[j].request.segment

\* ------------------------------------------------------------ C14
Steps(name) == {k \in 1..Len(trace) : trace[k] = name}

\* the cache is looked up before any effect processing
LookupFirst ==
    (request.use_cache /\ sys_pc # "idle") =>
        /\ Steps("lookup") = {1}
        /\ \A k \in Steps("process") : k > 1

\* on a hit no effect is executed and the cached payload is the result
HitShortCircuits ==
    (sys_pc = "returned" /\ served[Len(served)].hit) =>
        /\ Steps("process") = {}
        /\ Steps("store") \cup Steps("store_failed") = {}
        /\ response = lookup_result.value.data
        /\ lookup_result.key = CacheKey(request)

\* on a miss the cache is written once, after processing and merging
WrittenOnceAfterMerge ==
    /\ Cardinality(Steps("store") \cup Steps("store_failed")) <= 1
    /\ \A k \in Steps("store") \cup Steps("store_failed") : Steps("process") = {k - 1}
    /\ (request.use_cache /\ sys_pc = "returned" /\ ~served[Len(served)].hit) =>
          Cardinality(Steps("store") \cup Steps("store_failed")) = 1
    /\ \A k \in Steps("store") :
          /\ InIndex(cache_index["audio"], CacheKey(request))
          /\ cache_files["audio"][Filename("audio", CacheKey(request))]
                = sf_write([data |-> sys_audio, samplerate |-> Load(request.audio_path).sr])

Repeated(j) == j >= 2 /\ served[j].request = served[j - 1].request /\ served[j].request.use_cache

\* C14 (as claimed): with caching enabled the cache is looked up before any
\* effect processing; on a hit no effect is executed and the cached payload
\* is the result; on a miss the cache is written once, after processing and
\* merging, so a second identical request is a hit.
C14_SecondIdenticalRequestHits ==
    /\ LookupFirst
    /\ HitShortCircuits
    /\ WrittenOnceAfterMerge
    /\ \A j \in 1..Len(served) : Repeated(j) => served[j].hit

\* C14 (amended): the same, the second identical request being a hit when
\* the first was served from the cache or its store succeeded, in which case
\* it returns what was stored as the file reads back; when the payload write
\* of the store failed, the second identical request misses again.
C14_SecondIdenticalRequestHitsAfterStore ==
    /\ LookupFirst
    /\ HitShortCircuits
    /\ WrittenOnceAfterMerge
    /\ \A j \in 1..Len(served) : Repeated(j) =>
          /\ (served[j - 1].hit \/ served[j - 1].stored = "ok") => served[j].hit
          /\ served[j - 1].stored = "ok" =>
                served[j].audio
                    = sf_read(sf_write([data |-> served[j - 1].audio,
                                        samplerate |-> Load(served[j].request.audio_path).sr])).data
          /\ served[j - 1].stored = "failed" => ~served[j].hit

C14_Witness ==
    /\ sys_pc = "returned"
    /\ Len(served) = 2
    /\ Repeated(2)
    /\ Truthy(served[1].request.segment)
    /\ served[1].stored = "ok"
    /\ served[1].audio # Load(served[1].request.audio_path).y
    /\ served[2].hit
    /\ trace = <<"lookup", "output">>

\* ------------------------------------------------------------ C30
\* every chunk collected is its source slice
AllIdentity == \A i \in 0..(Len(chunks) - 1) : CollectedOf(i) = chunks[i + 1]

\* C30: the fade-in and fade-out weights sum to 1 at every position of an
\* overlap region, so when every chunk collected equals its source slice the
\* merged output equals the source buffer sample for sample.
C30_IdentityChunksMergeToSource ==
    /\ \A num \in 1..overlap_size : \A j \in 0..(num - 1) :
          RAdd(FadeIn(num, j), FadeOut(num, j)) = <<1, 1>>
    /\ (Chunked /\ AllResolved /\ AllIdentity /\ Finished)
          => (pc = "returned" /\ merged_audio = audio_data)

C30_Witness ==
    /\ Chunked
    /\ pc = "returned"
    /\ AllIdentity
    /\ Len(chunks) >= 3
    /\ overlap_size >= 2
    /\ merged_audio = audio_data
    /\ \E k \in 2..Len(audio_data) : audio_data[k] # audio_data[1]

\* ------------------------------------------------------------ C28
\* the merge starts only after every dispatched chunk has resolved, and the
\* call does not return while a chunk is unresolved
MergeAfterAllResolved ==
    /\ [][(pc = "collecting" /\ pc' # "collecting") => AllResolved]_vars
    /\ [][(pc = "collecting" /\ AllResolved) => pc' \in {"returned", "raised"}]_vars
    /\ [](Chunked /\ Finished => AllResolved)

\* every chunk result has the length of its source slice
AllResultsKeepLength == \A i \in 0..(Len(chunks) - 1) : Len(ResultOf(i)) = Len(chunks[i + 1])

\* C28 (as claimed): the merge starts only after every dispatched chunk has
\* resolved; when every worker completes or fails the call eventually
\* returns the merged buffer.
C28_CallEventuallyReturns ==
    /\ MergeAfterAllResolved
    /\ (pc = "collecting") ~> (pc = "returned")

\* C28 (amended): the same, the call eventually returning the merged buffer
\* or raising the error of a merge that cannot assign a chunk result whose
\* length differs from its source slice.
C28_CallEventuallyReturnsOrRaises ==
    /\ MergeAfterAllResolved
    /\ (pc = "collecting") ~> (pc = "returned" \/ (pc = "raised" /\ ~AllSameLength))
    /\ (pc = "collecting" /\ AllResultsKeepLength) ~> (pc = "returned")

C28_Witness ==
    /\ Chunked
    /\ pc = "returned"
    /\ Len(chunks) >= 3
    /\ \E i \in 1..Len(future_state) : future_state[i] = "exception"
    /\ \E i \in 1..Len(future_state) : future_state[i] = "result"

\* ------------------------------------------------------------ C26
AllFailing == [Namespaces -> SUBSET FileIds]

FailingKeys(failing) == [ns \in Namespaces |-> {key \in Keys(ns) : key[2] \in failing[ns]}]

\* a completed mutation whose rewrite of cache_index.json succeeded
MutationSaved ==
    \/ /\ last_op' = "store"
       /\ \E ns \in Namespaces : \E key \in Keys(ns) : \E payload \in Payloads(ns) :
             Store(ns, key, payload, TRUE)
    \/ /\ last_op' = "clean_old_cache"
       /\ \E failing \in AllFailing : CleanOldCache(FailingKeys(failing), TRUE)
    \/ /\ last_op' = "clear_cache"
       /\ ClearCache(TRUE)

\* a completed mutation whose rewrite of cache_index.json failed
MutationNotSaved ==
    \/ /\ last_op' = "store"
       /\ \E ns \in Namespaces : \E key \in Keys(ns) : \E payload \in Payloads(ns) :
             Store(ns, key, payload, FALSE)
    \/ /\ last_op' = "clean_old_cache"
       /\ \E failing \in AllFailing : CleanOldCache(FailingKeys(failing), FALSE)
    \/ /\ last_op' = "clear_cache"
       /\ ClearCache(FALSE)

RestartStep ==
    /\ last_op' = "init"
    /\ \E failing \in AllFailing : \E written \in BOOLEAN : Restart(FailingKeys(failing), written)

C27_UnreadableEntryEvictedOnLookup ==
    [][(LookupStep /\ PayloadUnreadable(lookup_result'.ns, lookup_result'.key))
          => /\ ~InIndex(cache_index'[lookup_result'.ns], lookup_result'.key)
             /\ Filename(lookup_result'.ns, lookup_result'.key)
                    \notin DOMAIN cache_files'[lookup_result'.ns]]_vars

\* ---------------------------------------------------------------- C24
SegmentStart(req) ==
    PyInt(RMul(req.segment[1].start, Num(Load(req.audio_path).sr)))

SegmentEnd(req) ==
    Min(PyInt(RMul(req.segment[1].end, Num(Load(req.audio_path).sr))),
        Len(Load(req.audio_path).y))

\* the served calls that processed a segment (no cache hit)
ProcessedSegmentCalls ==
    {k \in 1..Len(served) : ~served[k].hit /\ Truthy(served[k].request.segment)}

\* C24: when the orchestrator processes only a segment [start, end), the
\* output has the length of the full input and differs from the input only
\* at samples inside the segment.
C24_SegmentOutputDiffersOnlyInside ==
    \A k \in ProcessedSegmentCalls :
        /\ Len(served[k].audio) = Len(Load(served[k].request.audio_path).y)
        /\ \A j \in 1..Len(served[k].audio) :
              (j <= SegmentStart(served[k].request) \/ j > SegmentEnd(served[k].request))
                  => served[k].audio[j] = Load(served[k].request.audio_path).y[j]

\* a segment that does not start at the first sample was processed and the
\* output differs from the input inside it
C24_Witness ==
    \E k \in ProcessedSegmentCalls :
        /\ SegmentStart(served[k].request) > 0
        /\ \E j \in (SegmentStart(served[k].request) + 1)..SegmentEnd(served[k].request) :
              served[k].audio[j] # Load(served[k].request.audio_path).y[j]


\* ---------------------------------------------------------------- C21
\* an effect function was called directly with the EffectSpec CalledEffect
Applied == proc_pc = "applied"

CalledEffect == proc_effects[1][1]

NoOpEffects == {EqFlat, DelayDry, DistortionDry}

ClipLimit == <<99, 100>>

\* C21 (as claimed): for every input with samples in [-1, 1], eq with all
\* band gains 0, delay with mix = 0 and distortion with mix = 0 return the
\* input unchanged, inputs with a peak above 0.99 included.
C21_NoOpEffectsReturnInput ==
    (Applied /\ CalledEffect \in NoOpEffects) => proc_result.audio = proc_audio

\* C21 (amended): eq with all band gains 0, delay with mix = 0 and distortion
\* with mix = 0 return the input unchanged when its peak is at most 0.99, and
\* the input scaled to a peak of 0.99 when its peak is above 0.99.
C21_NoOpEffectsReturnInputUpToLimit ==
    (Applied /\ CalledEffect \in NoOpEffects) =>
        IF RLess(ClipLimit, Peak(proc_audio))
        THEN proc_result.audio =
                 [k \in 1..Len(proc_audio) |->
                     RMul(RDiv(proc_audio[k], Peak(proc_audio)), ClipLimit)]
        ELSE proc_result.audio = proc_audio

\* distortion with mix = 0 was called on an input with a peak above 0.99
\* and returned it scaled to a peak of 0.99
C21_Witness ==
    /\ Applied
    /\ CalledEffect = DistortionDry
    /\ RLess(ClipLimit, Peak(proc_audio))
    /\ proc_result.audio # proc_audio
    /\ Peak(proc_result.audio) = ClipLimit

\* ---------------------------------------------------------------- C22
ClampedKinds == {"eq", "compression", "reverb", "delay", "distortion", "stereo_width"}

\* C22 (as claimed): after each of eq, compression, reverb, delay, distortion
\* and stereo_width, on every input and on the no-op and failure paths too,
\* the peak absolute value of the output is at most 0.99.
C22_OutputPeakAtMostLimit ==
    (Applied /\ CalledEffect.type \in ClampedKinds) =>
        ~RLess(ClipLimit, Peak(proc_result.audio))


\* ---------------------------------------------------------------- C23
LastCall == ext_calls[Len(ext_calls)]

\* the last two calls were enable_extension and then disable_extension of
\* the same user and extension, and both returned True
EnabledThenDisabled ==
    /\ Len(ext_calls) >= 2
    /\ LastCall.op = "disable" /\ LastCall.result
    /\ ext_calls[Len(ext_calls) - 1] =
           ExtCall("enable", LastCall.user_id, LastCall.extension_id, TRUE)

JustEnabled == Len(ext_calls) >= 1 /\ LastCall.op = "enable" /\ LastCall.result

\* C23 (as claimed): for every user and every existing extension, premium
\* or not, is_extension_enabled is True after enable_extension returned
\* True, and False after a following disable_extension returned True.
C23_EnableThenDisable ==
    /\ JustEnabled => is_extension_enabled(LastCall.user_id, LastCall.extension_id)
    /\ EnabledThenDisabled =>
           ~is_extension_enabled(LastCall.user_id, LastCall.extension_id)


\* ---------------------------------------------------------------- C25
\* C25 (as claimed): when no provider is configured or the remote path
\* fails, LLMProcessor.process_instructions returns the chain that
\* AudioProcessor.parse_instructions produces for the same instructions and
\* analysis, and every effect kind in it is one the effect library executes.
C25_FallbackIsRuleBasedCompiler ==
    proc_pc = "fell_back" =>
        /\ proc_chain = parse_instructions(Text(proc_instructions), proc_analysis)
        /\ \A k \in 1..Len(proc_chain) : proc_chain[k].type \in supported_effects


\* ---------------------------------------------------------------- C29
BothDone == \A t \in Threads : st_pc[t] = "done"

\* get_processed_audio would return the payload of thread t
Retrievable(t) ==
    /\ InIndex(mem_index, st_call[t].key)
    /\ EntryOf(mem_index, st_call[t].key).filename \in DOMAIN wav_files
    /\ wav_files[EntryOf(mem_index, st_call[t].key).filename]
           = Encode("audio", st_call[t].payload)

\* C29 (as claimed): for two concurrent stores under any interleaving of
\* their steps, once both have completed: with different keys both entries
\* are retrievable and both are recorded in the persisted index; with the
\* same key exactly one entry exists and it holds the payload of the last
\* write.
C29_ConcurrentStoresBothRecorded ==
    BothDone =>
        IF st_call[1].key # st_call[2].key
        THEN \A t \in Threads :
                /\ Retrievable(t)
                /\ InIndex(LoadedIndex(json_file), st_call[t].key)
        ELSE /\ Cardinality({k \in 1..Len(mem_index) : mem_index[k].key = st_call[1].key}) = 1
             /\ Retrievable(write_order[Len(write_order)])

====
